---- MODULE Spec2Model ----
(***************************************************************************)
(* xMobu: MotionBuilder tool dialogs (Character Mapper, Constraint         *)
(* Manager, Anim Exporter), the scene event manager, the list-widget       *)
(* reconciliation and the configuration manager, as state machines.        *)
(*                                                                         *)
(* Text is modelled as a sequence of one-character strings, so that        *)
(* lower(), split('.'), int() and substring tests are computed and not     *)
(* assumed.  A scene object is an identity 1..NumObjects; 0 stands for     *)
(* Python's None.                                                          *)
(***************************************************************************)
EXTENDS Integers, Sequences, FiniteSets, TLC

\* ------------------------------------------------------------------ bounds
\* number of object identities the host scene can hold
NumObjects == 4

None == 0
Objects == 1..NumObjects

\* ------------------------------------------------------------------- text
\* code point of a character (Python compares str by code point)
Code(c) ==
  CASE c = " " -> 32 [] c = "+" -> 43 [] c = "-" -> 45 [] c = "." -> 46
    [] c = "0" -> 48 [] c = "1" -> 49 [] c = "2" -> 50 [] c = "3" -> 51
    [] c = "4" -> 52 [] c = "5" -> 53 [] c = "6" -> 54 [] c = "7" -> 55
    [] c = "8" -> 56 [] c = "9" -> 57 [] c = ":" -> 58
    [] c = "A" -> 65 [] c = "B" -> 66 [] c = "C" -> 67 [] c = "N" -> 78
    [] c = "_" -> 95
    [] c = "a" -> 97 [] c = "b" -> 98 [] c = "c" -> 99 [] c = "n" -> 110
    [] c = "x" -> 120
    [] OTHER -> 63

\* str.lower() on one character
LowerChar(c) ==
  CASE c = "A" -> "a" [] c = "B" -> "b" [] c = "C" -> "c" [] c = "N" -> "n"
    [] OTHER -> c

\* str.lower()
Lower(s) == [i \in 1..Len(s) |-> LowerChar(s[i])]

\* Python's `sub in s` on str
Contains(s, sub) ==
  \E i \in 0..(Len(s) - Len(sub)) :
     \A j \in 1..Len(sub) : s[i + j] = sub[j]

\* Python's str < str : lexicographic by code point
RECURSIVE StrLess(_, _)
StrLess(a, b) ==
  IF b = <<>> THEN FALSE
  ELSE IF a = <<>> THEN TRUE
  ELSE IF Code(Head(a)) < Code(Head(b)) THEN TRUE
  ELSE IF Code(Head(a)) > Code(Head(b)) THEN FALSE
  ELSE StrLess(Tail(a), Tail(b))

\* ------------------------------------------------------------ sequences
Range(s) == {s[i] : i \in 1..Len(s)}

\* Python's `x in lst`
InList(x, lst) == \E i \in 1..Len(lst) : lst[i] = x

\* list.remove(x): delete the first occurrence
RECURSIVE ListRemove(_, _)
ListRemove(lst, x) ==
  IF lst = <<>> THEN <<>>
  ELSE IF Head(lst) = x THEN Tail(lst)
  ELSE <<Head(lst)>> \o ListRemove(Tail(lst), x)

\* del lst[i]
DelAt(lst, i) == [k \in 1..(Len(lst) - 1) |-> IF k < i THEN lst[k] ELSE lst[k + 1]]

\* sequences without repetition over a set
RECURSIVE SeqsNoDup(_)
SeqsNoDup(S) ==
  IF S = {} THEN {<<>>}
  ELSE {<<>>} \cup UNION {{<<x>> \o t : t \in SeqsNoDup(S \ {x})} : x \in S}

\* --------------------------------------------------------- host objects
\* FBModel.Name of each object identity (short name, not unique)
NameOf(o) ==
  CASE o = 1 -> <<"A", "b">>
    [] o = 2 -> <<"b", "A">>
    [] o = 3 -> <<"A", "b">>
    [] o = 4 -> <<"a", "B", "c">>
    [] OTHER -> <<"C">>

\* namespace prefix of each object ("" when the object has none)
NamespaceOf(o) ==
  CASE o = 3 -> <<"n", ":">>
    [] OTHER -> <<>>

\* FBModel.LongName: namespace-qualified name, unique in the scene
LongNameOf(o) == NamespaceOf(o) \o NameOf(o)

\* isinstance(model, FBCamera)
IsCamera(o) == o = 4

\* isinstance(comp, FBModel): identity 5 is a non-model component
IsModel(o) == o # 5

\* FBModel.Parent (None for a root)
ParentOf(o) ==
  CASE o = 3 -> 2
    [] o = 4 -> 2
    [] OTHER -> None

\* ------------------------------------------------------------ variables
VARIABLES
  \* host (MotionBuilder)
  Components,          \* FBSystem().Scene.Components, in scene order
  channels,            \* callbacks attached to each host event channel
  hostDedup,           \* TRUE: the host keeps one entry per callback
  Selected,            \* the objects whose FBModel.Selected is True
  \* SceneEventManager instances
  registered,          \* manager -> _registered_callbacks
  removeCalls,         \* host Remove calls issued by the last operation
  lastOp,              \* the operation that ran last
  \* Character Mapper dialog
  mp_dialog,           \* "none" | "open" | "closed" (_character_mapper_dialog)
  mp_is_closing,       \* CharacterMapperDialog._is_closing
  all_models,
  selected_objects,
  bone_mappings,
  objectsList,         \* texts of the objectsList widget items
  searchEdit,
  presetNameEdit,
  presetFiles,         \* preset name -> saved "mappings" (or NoFile)
  mp_msg,              \* the message box shown by the last operation
  hostCalls,           \* host API calls made by the last operation
  rt,                  \* history of a save / clear / load sequence
  mp_ui_ok,            \* load_ui found the .ui file and built the widgets
  ret,                 \* what the last refresh_list_widget call returned
  prev_selected,       \* selected_objects as the last refresh received it
  raised,              \* the last operation let an exception escape
  logged,              \* logger.error entries written by the last operation
  \* Constraint Manager dialog
  cm_dialog,           \* "none" | "open" | "closed" (_constraint_manager_dialog)
  cm_is_closing,       \* ConstraintManagerDialog._is_closing
  cm_ui_ok,            \* load_ui found the .ui file and built the widgets
  all_scene_objects,
  cm_selected_objects, \* ConstraintManagerDialog.selected_objects
  constraint_parents,
  constraint_children,
  selectionList,       \* texts of the selectionList widget items
  cm_msg,              \* the message box shown by the last operation
  cm_refreshed,        \* the last operation ran on_scene_change's refresh
  \* Anim Exporter: AddAnimationDialog and the table behind it
  ad_state,            \* "none" | "open" | "accepted" | "rejected"
  name_input,
  start_frame_input,
  end_frame_input,
  animation_data,      \* AddAnimationDialog.animation_data
  ad_msg,              \* the validation message of the last on_accept
  animation_table,     \* rows of AnimExporterDialog.animation_table
  note_props,          \* anim00, anim01, ... of the AnimNoteData note
  \* ConfigManager
  config,              \* ConfigManager._config
  cfg_call,            \* arguments of the last get
  cfg_result,          \* what the last get returned
  config_file,         \* the configuration ConfigManager.save last wrote
  \* the tools' windows and the menu
  windows,             \* tool -> dialogs created by execute and not closed
  ae_dialog,           \* "none" | "open" | "closed" (_anim_exporter_dialog)
  st_dialog,           \* "none" | "open" | "closed" (_settings_dialog)
  st_msg,              \* the message box shown by the last Settings operation
  st_status,           \* text of the p4StatusLabel
  st_ui_ok,            \* SettingsDialog.load_ui found settings.ui
  p4WorkspaceList,     \* texts of the p4WorkspaceList widget items
  menu_called,         \* callbacks invoked by the last menu event
  menu_reported,       \* the last menu event printed a failure report
  \* utilities
  gm_call,             \* arguments and result of the last get_all_models call
  \* SceneMonitor
  sm_monitor,          \* "none" | "made" (_scene_monitor)
  callbacks_registered,
  scene_objects,
  sm_namespaces,       \* SceneMonitor.namespaces
  has_objects,
  listeners,
  failing,             \* the listeners that raise when they are called
  sm_notified,         \* the listener calls of the last scan, in order
  \* Constraint Manager: constraint creation
  activeCheckbox,      \* activeCheckbox.isChecked()
  constraintTypeCombo, \* constraintTypeCombo.currentText()
  constraints,         \* the constraints of the scene, in creation order
  cm_boxes             \* the message boxes the last checkbox change showed

hostVars == <<Components, channels, hostDedup, Selected>>
emVars == <<registered, removeCalls>>
mpListVars == <<all_models, selected_objects, objectsList, searchEdit>>
mpSlotVars == <<bone_mappings, presetNameEdit, presetFiles, mp_msg, hostCalls, rt>>
mpVars == <<mp_dialog, mp_is_closing, mp_ui_ok, mpListVars, mpSlotVars, ret, prev_selected>>
cmRoleVars == <<cm_selected_objects, constraint_parents, constraint_children>>
cmVars == <<cm_dialog, cm_is_closing, cm_ui_ok, all_scene_objects, cmRoleVars,
            selectionList, cm_msg, cm_refreshed>>
animVars == <<ad_state, name_input, start_frame_input, end_frame_input, animation_data,
              ad_msg, animation_table, note_props>>
cfgVars == <<config, cfg_call, cfg_result, config_file>>
stVars == <<st_dialog, st_msg, st_status, st_ui_ok, p4WorkspaceList>>
menuVars == <<menu_called, menu_reported>>
utilVars == <<gm_call>>
smVars == <<sm_monitor, callbacks_registered, scene_objects, sm_namespaces, has_objects,
           listeners, failing, sm_notified>>
ccVars == <<activeCheckbox, constraintTypeCombo, constraints, cm_boxes>>
extVars == <<utilVars, smVars, ccVars>>
toolRest == <<ae_dialog, stVars, menuVars, extVars>>
toolVars == <<windows, toolRest>>
auxVars == <<animVars, cfgVars, toolVars>>
vars == <<hostVars, emVars, lastOp, raised, logged, mpVars, cmVars, auxVars>>

\* ------------------------------------------------------- scene snapshot
\* the top-level models: the models that have no parent
TopLevel(comps) == SelectSeq(comps, LAMBDA c : IsModel(c) /\ ParentOf(c) = None)

\* get_all_models(include_children): every FBModel of scene.Components, in
\* scene order; the body never reads include_children
get_all_models(comps, include_children) == SelectSeq(comps, IsModel)

\* list.sort(key=lambda x: x.Name): stable insertion by Name
RECURSIVE InsertByName(_, _)
InsertByName(sorted, o) ==
  IF sorted = <<>> THEN <<o>>
  ELSE IF StrLess(NameOf(o), NameOf(Head(sorted)))
       THEN <<o>> \o sorted
       ELSE <<Head(sorted)>> \o InsertByName(Tail(sorted), o)

RECURSIVE SortByName(_)
SortByName(lst) ==
  IF lst = <<>> THEN <<>>
  ELSE InsertByName(SortByName(SubSeq(lst, 1, Len(lst) - 1)), lst[Len(lst)])

\* get_children(model, recursive=False): model.Children
get_children(comps, model) ==
  SelectSeq(comps, LAMBDA c : IsModel(c) /\ ParentOf(c) = model)

\* names shown for a list of models
NamesOf(models) == [i \in 1..Len(models) |-> NameOf(models[i])]

\* --------------------------------------------- list-widget reconciliation
\* refresh_list_widget, the clean-up loop: i runs from len-1 down to 0 and
\* deletes selected_objects[i] when it is not in models
RECURSIVE PruneFrom(_, _, _)
PruneFrom(sel, models, i) ==
  IF i < 1 THEN sel
  ELSE IF ~InList(sel[i], models)
       THEN PruneFrom(DelAt(sel, i), models, i - 1)
       ELSE PruneFrom(sel, models, i - 1)

\* the clean-up written as `for obj in selected_objects: ... remove(obj)`:
\* removing while iterating forwards skips the element after each removal
RECURSIVE PruneSkipping(_, _, _)
PruneSkipping(sel, models, i) ==
  IF i > Len(sel) THEN sel
  ELSE IF ~InList(sel[i], models)
       THEN PruneSkipping(DelAt(sel, i), models, i + 1)
       ELSE PruneSkipping(sel, models, i + 1)

PruneSelection_forward(sel, models) == PruneSkipping(sel, models, 1)

PruneSelection(sel, models) == PruneFrom(sel, models, Len(sel))

\* what can go wrong inside one refresh_list_widget call: Qt cannot be
\* imported ("import"), or one of the calls inside the try block raises:
\* list_widget.clear() ("clear"), the addItem loop ("addItem", after k names
\* were added), or update / repaint / UpdateAllWidgets ("update")
NoFault == [at |-> "none", k |-> 0]
Faults(models) ==
  {NoFault, [at |-> "import", k |-> 0], [at |-> "clear", k |-> 0],
   [at |-> "update", k |-> 0]}
  \cup {[at |-> "addItem", k |-> n] : n \in 0..(Len(models) - 1)}

\* refresh_list_widget with the two except clauses answering True
refresh_list_widget_true_on_error(found, fault, items, models, sel) ==
  IF fault.at = "import" THEN [ok |-> "False", items |-> items, sel |-> sel]
  ELSE IF ~found THEN [ok |-> "False", items |-> items, sel |-> sel]
  ELSE IF fault.at = "clear" THEN [ok |-> "True", items |-> items, sel |-> sel]
  ELSE IF fault.at = "addItem"
       THEN [ok |-> "True", items |-> SubSeq(NamesOf(models), 1, fault.k), sel |-> sel]
  ELSE IF fault.at = "update"
       THEN [ok |-> "True", items |-> NamesOf(models), sel |-> sel]
  ELSE [ok |-> "True", items |-> NamesOf(models), sel |-> PruneSelection(sel, models)]

\* refresh_list_widget(parent, name, models, selected_objects): the result
\* is <<success, widget items, selected_objects>>; an exception inside the
\* try block leaves the widget as far as it got and skips the clean-up
refresh_list_widget(found, fault, items, models, sel) ==
  IF fault.at = "import" THEN [ok |-> "False", items |-> items, sel |-> sel]
  ELSE IF ~found THEN [ok |-> "False", items |-> items, sel |-> sel]
  ELSE IF fault.at = "clear" THEN [ok |-> "False", items |-> items, sel |-> sel]
  ELSE IF fault.at = "addItem"
       THEN [ok |-> "False", items |-> SubSeq(NamesOf(models), 1, fault.k), sel |-> sel]
  ELSE IF fault.at = "update"
       THEN [ok |-> "False", items |-> NamesOf(models), sel |-> sel]
  ELSE [ok |-> "True", items |-> NamesOf(models), sel |-> PruneSelection(sel, models)]

\* ---------------------------------------------------- SceneEventManager
ChannelNames == {"OnFileNewCompleted", "OnFileOpenCompleted", "OnFileMerge",
                 "OnFileSaveCompleted", "OnChange"}
Categories == {"file_new", "file_open", "file_merge", "file_save", "scene_change"}

\* the host channel each bookkeeping list belongs to
ChannelOf(cat) ==
  CASE cat = "file_new" -> "OnFileNewCompleted"
    [] cat = "file_open" -> "OnFileOpenCompleted"
    [] cat = "file_merge" -> "OnFileMerge"
    [] cat = "file_save" -> "OnFileSaveCompleted"
    [] OTHER -> "OnChange"

\* SceneEventManager.__init__: _registered_callbacks
EmptyCallbacks == [c \in Categories |-> <<>>]

\* host event .Add(callback)
HostAdd(dedup, chs, ch, cb) ==
  IF dedup /\ InList(cb, chs[ch]) THEN chs
  ELSE [chs EXCEPT ![ch] = Append(@, cb)]

\* host event .Remove(callback): detaches one entry, nothing when absent
HostRemove(chs, ch, cb) == [chs EXCEPT ![ch] = ListRemove(@, cb)]

\* one iteration of the loop of register_file_events; st = [reg, chs]
RegisterOne(dedup, st, cb, event) ==
  LET cat == CASE event = "new" -> "file_new"
               [] event = "open" -> "file_open"
               [] event = "merge" -> "file_merge"
               [] event = "save" -> "file_save"
               [] OTHER -> "none"
  IN IF cat = "none" THEN st
     ELSE [reg |-> [st.reg EXCEPT ![cat] = Append(@, cb)],
           chs |-> HostAdd(dedup, st.chs, ChannelOf(cat), cb)]

\* SceneEventManager.register_file_events(callback, events)
RECURSIVE register_file_events(_, _, _, _)
register_file_events(dedup, st, cb, events) ==
  IF events = <<>> THEN st
  ELSE register_file_events(dedup, RegisterOne(dedup, st, cb, Head(events)),
                            cb, Tail(events))

\* SceneEventManager.register_scene_changes(callback)
register_scene_changes(dedup, st, cb) ==
  [reg |-> [st.reg EXCEPT !["scene_change"] = Append(@, cb)],
   chs |-> HostAdd(dedup, st.chs, "OnChange", cb)]

\* `for cb in list: channel.Remove(cb)` followed by list.clear();
\* st = [reg, chs, n] where n counts the host Remove calls
RECURSIVE RemoveEach(_, _, _)
RemoveEach(chs, ch, cbs) ==
  IF cbs = <<>> THEN chs
  ELSE RemoveEach(HostRemove(chs, ch, Head(cbs)), ch, Tail(cbs))

UnregisterCategory(st, cat) ==
  [reg |-> [st.reg EXCEPT ![cat] = <<>>],
   chs |-> RemoveEach(st.chs, ChannelOf(cat), st.reg[cat]),
   n |-> st.n + Len(st.reg[cat])]

\* the `else` branch of unregister_file_events / unregister_scene_changes
UnregisterCallback(st, cat, cb) ==
  IF InList(cb, st.reg[cat])
  THEN [reg |-> [st.reg EXCEPT ![cat] = ListRemove(@, cb)],
        chs |-> HostRemove(st.chs, ChannelOf(cat), cb),
        n |-> st.n + 1]
  ELSE st

\* SceneEventManager.unregister_file_events(callback); cb = "" is None.
\* With None the four loops run before the four clear() calls; the loops
\* touch one channel each, so running them category by category is the same
unregister_file_events(st, cb) ==
  IF cb = ""
  THEN UnregisterCategory(UnregisterCategory(UnregisterCategory(UnregisterCategory(
         st, "file_new"), "file_open"), "file_merge"), "file_save")
  ELSE UnregisterCallback(UnregisterCallback(UnregisterCallback(UnregisterCallback(
         st, "file_new", cb), "file_open", cb), "file_merge", cb), "file_save", cb)

\* SceneEventManager.unregister_scene_changes(callback); cb = "" is None
unregister_scene_changes(st, cb) ==
  IF cb = "" THEN UnregisterCategory(st, "scene_change")
  ELSE UnregisterCallback(st, "scene_change", cb)

\* an unregister_all that forgets the scene-change callbacks
unregister_all_files_only(st) == unregister_file_events(st, "")

\* SceneEventManager.unregister_all()
unregister_all(st) == unregister_scene_changes(unregister_file_events(st, ""), "")

\* ------------------------------------------------- Character Mapper: list
\* CHARACTER_SLOTS, the slot names in list order
CHARACTER_SLOTS ==
  <<"Reference", "Hips", "Spine", "Spine1", "Spine2", "Spine3", "Spine4",
    "Spine5", "Spine6", "Spine7", "Spine8", "Spine9", "Neck", "Head",
    "LeftShoulder", "LeftArm", "LeftForeArm", "LeftHand",
    "RightShoulder", "RightArm", "RightForeArm", "RightHand",
    "LeftUpLeg", "LeftLeg", "LeftFoot", "RightUpLeg", "RightLeg", "RightFoot">>

SlotNames == Range(CHARACTER_SLOTS)

\* load_ui: `self.bone_mappings[slot_name] = None` for every slot
EmptyMapping == [s \in SlotNames |-> None]

NoMsg == [title |-> "", items |-> <<>>]
NoRT == [phase |-> "none"]

\* the Qt tools that keep a module-level dialog reference
Tools == {"mapper", "cm", "anim", "settings"}

\* an execute() that builds a dialog whatever the module-level reference holds
execute_creates_always(ref) == TRUE

\* execute(): `if _dialog is not None: show / raise_ / activateWindow; return`,
\* a new dialog is built only when the reference is None
execute_creates(ref) == ref # "open"

\* the windows of tool t after its execute() found the reference ref
WindowsAfterExecute(t, ref) ==
  IF execute_creates(ref) THEN [windows EXCEPT ![t] = @ + 1] ELSE windows

\* the windows of tool t after one of its dialogs accepted its close event
WindowsAfterClose(t) == [windows EXCEPT ![t] = @ - 1]

NoCall == [include_children |-> TRUE, result |-> <<>>]

SmInit ==
  /\ sm_monitor = "none" /\ callbacks_registered = FALSE
  /\ scene_objects = <<>> /\ sm_namespaces = {} /\ has_objects = FALSE
  /\ listeners = <<>> /\ failing = {} /\ sm_notified = <<>>

CcInit ==
  /\ activeCheckbox = FALSE /\ constraintTypeCombo = "Parent/Child"
  /\ constraints = <<>> /\ cm_boxes = <<>>

ExtInit ==
  /\ gm_call = NoCall
  /\ SmInit
  /\ CcInit

ToolInit ==
  /\ ExtInit
  /\ windows = [t \in Tools |-> 0]
  /\ ae_dialog = "none" /\ st_dialog = "none"
  /\ st_msg = NoMsg /\ st_status = "" /\ st_ui_ok = FALSE /\ p4WorkspaceList = <<>>
  /\ menu_called = <<>> /\ menu_reported = FALSE

\* the relevant_events list of CharacterMapperDialog.on_scene_change
MpRelevantEvents == {"AddChild", "RemoveChild", "Destroy", "Renamed"}

\* CharacterMapperDialog.update_scene_objects: the new
\* [all_models, items, sel, ok] for the scene comps
update_scene_objects(comps, found, items, sel) ==
  LET am == SortByName(SelectSeq(get_all_models(comps, TRUE), LAMBDA m : ~IsCamera(m)))
      r == refresh_list_widget(found, NoFault, items, am, sel)
  IN [all_models |-> am, items |-> r.items, sel |-> r.sel, ok |-> r.ok]

\* apply_filter comparing the lowered text with the name as it is
apply_filter_case(text, models) ==
  LET filter_text == Lower(text)
  IN IF filter_text = <<>> THEN NamesOf(models)
     ELSE NamesOf(SelectSeq(models, LAMBDA m : Contains(NameOf(m), filter_text)))

\* CharacterMapperDialog.apply_filter: the new widget items
apply_filter(text, models) ==
  LET filter_text == Lower(text)
  IN IF filter_text = <<>> THEN NamesOf(models)
     ELSE NamesOf(SelectSeq(models, LAMBDA m : Contains(Lower(NameOf(m)), filter_text)))

\* `for obj in self.all_models: if obj.Name == name: ...; break`
RECURSIVE FirstByName(_, _)
FirstByName(models, name) ==
  IF models = <<>> THEN None
  ELSE IF NameOf(Head(models)) = name THEN Head(models)
  ELSE FirstByName(Tail(models), name)

\* CharacterMapperDialog._find_model_by_name
RECURSIVE FirstByLongName(_, _)
FirstByLongName(models, name) ==
  IF models = <<>> THEN None
  ELSE IF LongNameOf(Head(models)) = name THEN Head(models)
  ELSE FirstByLongName(Tail(models), name)

mp_find_model_by_name(models, name) ==
  IF FirstByLongName(models, name) # None THEN FirstByLongName(models, name)
  ELSE FirstByName(models, name)

MpUsable == mp_dialog = "open" /\ mp_ui_ok

\* an operation that does not call refresh_list_widget
NoRefresh == ret' = "none" /\ prev_selected' = <<>>

\* what an operation that shows no message and calls no host API leaves
MpQuiet == mp_msg' = NoMsg /\ hostCalls' = <<>> /\ rt' = NoRT /\ raised' = FALSE /\ logged' = <<>>

\* CharacterMapperDialog.on_search_changed(text)
on_search_changed(text) ==
  /\ MpUsable
  /\ searchEdit' = text
  /\ objectsList' = apply_filter(text, all_models)
  /\ lastOp' = "on_search_changed"
  /\ UNCHANGED auxVars
  /\ MpQuiet
  /\ UNCHANGED <<cmVars, hostVars, emVars, mp_dialog, mp_is_closing, mp_ui_ok, all_models,
                 selected_objects, bone_mappings, presetNameEdit, presetFiles>>
  /\ NoRefresh

\* CharacterMapperDialog.on_refresh_clicked
on_refresh_clicked ==
  /\ MpUsable
  /\ LET u == update_scene_objects(Components, mp_ui_ok, objectsList, selected_objects)
     IN /\ all_models' = u.all_models
        /\ objectsList' = u.items
        /\ selected_objects' = u.sel
        /\ ret' = u.ok
  /\ prev_selected' = selected_objects
  /\ lastOp' = "on_refresh_clicked"
  /\ UNCHANGED auxVars
  /\ MpQuiet
  /\ UNCHANGED <<cmVars, hostVars, emVars, mp_dialog, mp_is_closing, mp_ui_ok, searchEdit,
                 bone_mappings, presetNameEdit, presetFiles>>

\* CharacterMapperDialog.on_object_list_item_clicked(item); ctrl is
\* `modifiers == Qt.ControlModifier`
on_object_list_item_clicked(i, ctrl) ==
  /\ MpUsable
  /\ i \in 1..Len(objectsList)
  /\ LET model == FirstByName(all_models, objectsList[i])
     IN /\ selected_objects' =
          IF model = None THEN selected_objects
          ELSE IF ctrl
               THEN IF InList(model, selected_objects)
                    THEN ListRemove(selected_objects, model)
                    ELSE Append(selected_objects, model)
               ELSE <<model>>
        /\ Selected' =
             IF model = None THEN Selected
             ELSE IF ctrl
                  THEN IF InList(model, selected_objects)
                       THEN Selected \ {model}
                       ELSE Selected \cup {model}
                  ELSE (Selected \ Range(selected_objects)) \cup {model}
  /\ lastOp' = "on_object_list_item_clicked"
  /\ UNCHANGED auxVars
  /\ MpQuiet
  /\ UNCHANGED <<cmVars, Components, channels, hostDedup, emVars, mp_dialog, mp_is_closing,
                 mp_ui_ok, all_models, objectsList, searchEdit, bone_mappings,
                 presetNameEdit, presetFiles>>
  /\ NoRefresh

\* CharacterMapperDialog.on_list_children_clicked
on_list_children_clicked ==
  /\ MpUsable
  /\ LET children == IF selected_objects = <<>> THEN <<>>
                     ELSE get_children(Components, selected_objects[1])
         shown == SelectSeq(children, LAMBDA c : ~IsCamera(c))
     IN IF selected_objects = <<>>
        THEN /\ mp_msg' = [title |-> "No Selection", items |-> <<>>]
             /\ UNCHANGED <<mpListVars, Selected>>
        ELSE IF shown = <<>>
        THEN /\ mp_msg' = [title |-> "No Children", items |-> <<>>]
             /\ UNCHANGED <<mpListVars, Selected>>
        ELSE /\ all_models' = SortByName(shown)
             /\ Selected' = Selected \ Range(selected_objects)
             /\ selected_objects' = <<>>
             /\ searchEdit' = <<>>
             /\ objectsList' = apply_filter(<<>>, SortByName(shown))
             /\ mp_msg' = NoMsg
  /\ lastOp' = "on_list_children_clicked"
  /\ UNCHANGED auxVars
  /\ hostCalls' = <<>> /\ rt' = NoRT /\ raised' = FALSE /\ logged' = <<>>
  /\ UNCHANGED <<cmVars, Components, channels, hostDedup, emVars, mp_dialog, mp_is_closing,
                 mp_ui_ok, bone_mappings, presetNameEdit, presetFiles>>
  /\ NoRefresh

\* ------------------------------------------------ Character Mapper: slots
\* dict.get(slot): None when the key is missing
MappingGet(bm, slot) == IF slot \in DOMAIN bm THEN bm[slot] ELSE None

\* an on_clear_mapping that leaves the table as it is
on_clear_mapping_noop(bm, ui_ok) == bm

\* CharacterMapperDialog.on_clear_mapping: the new bone_mappings.  Without
\* the widgets the first `self.mappingList` raises after one assignment.
on_clear_mapping(bm, ui_ok) ==
  IF ui_ok THEN [s \in DOMAIN bm \cup SlotNames |-> None]
  ELSE [s \in DOMAIN bm \cup {CHARACTER_SLOTS[1]} |->
          IF s = CHARACTER_SLOTS[1] THEN None ELSE bm[s]]

\* CharacterMapperDialog.on_bone_dropped(target_item, dropped_model_name)
on_bone_dropped(slot_index, i) ==
  /\ MpUsable
  /\ slot_index \in 1..Len(CHARACTER_SLOTS)
  /\ i \in 1..Len(objectsList)
  /\ LET model == FirstByName(all_models, objectsList[i])
     IN bone_mappings' =
          IF model = None THEN bone_mappings
          ELSE [bone_mappings EXCEPT ![CHARACTER_SLOTS[slot_index]] = model]
  /\ lastOp' = "on_bone_dropped"
  /\ UNCHANGED auxVars
  /\ raised' = FALSE /\ logged' = <<>>
  /\ mp_msg' = NoMsg /\ hostCalls' = <<>> /\ rt' = NoRT
  /\ NoRefresh
  /\ UNCHANGED <<cmVars, hostVars, emVars, mp_dialog, mp_is_closing, mp_ui_ok, mpListVars,
                 presetNameEdit, presetFiles>>

\* the Clear Mapping button: CharacterMapperDialog.on_clear_mapping
on_clear_mapping_clicked ==
  /\ MpUsable
  /\ bone_mappings' = on_clear_mapping(bone_mappings, mp_ui_ok)
  /\ rt' = IF rt.phase = "saved" THEN [rt EXCEPT !.phase = "cleared"] ELSE NoRT
  /\ lastOp' = "on_clear_mapping"
  /\ UNCHANGED auxVars
  /\ raised' = FALSE /\ logged' = <<>>
  /\ mp_msg' = NoMsg /\ hostCalls' = <<>>
  /\ NoRefresh
  /\ UNCHANGED <<cmVars, hostVars, emVars, mp_dialog, mp_is_closing, mp_ui_ok, mpListVars,
                 presetNameEdit, presetFiles>>

\* a `required` list that forgets the spine
RequiredSlots_noSpine == <<"Hips", "LeftUpLeg", "RightUpLeg">>

\* the `required` list of on_create_character
RequiredSlots == <<"Hips", "LeftUpLeg", "RightUpLeg", "Spine">>

\* `missing = [slot for slot in required if not self.bone_mappings.get(slot)]`
MissingSlots(bm) == SelectSeq(RequiredSlots, LAMBDA slot : MappingGet(bm, slot) = None)

\* apply_tpose: one side rotates when its arm and forearm are mapped
TposeCalls(bm) ==
  (IF MappingGet(bm, "LeftArm") # None /\ MappingGet(bm, "LeftForeArm") # None
   THEN <<"Rotation">> ELSE <<>>)
  \o (IF MappingGet(bm, "RightArm") # None /\ MappingGet(bm, "RightForeArm") # None
      THEN <<"Rotation">> ELSE <<>>)

\* the slots whose model is appended to the character's <slot>Link property
LinkCalls(bm) ==
  [k \in 1..Len(SelectSeq(CHARACTER_SLOTS, LAMBDA slot : MappingGet(bm, slot) # None))
     |-> "Link"]

\* what GetCharacterizeError() returns: "" when the host reports no error
ErrTexts == {"", "Hips not found"}

\* an on_create_character that goes on to the control rig and the success
\* box after the host reported an error
create_character_ignoring_error(bm, apose, reply, ik, err) ==
  LET missing == MissingSlots(bm)
      is_tpose == MappingGet(bm, "LeftArm") = None
                  \/ MappingGet(bm, "RightArm") = None \/ ~apose
      pose == IF ~is_tpose /\ reply = "Yes" THEN TposeCalls(bm) ELSE <<>>
      linked == pose \o <<"FBCharacter", "SetCharacterizeOn">> \o LinkCalls(bm)
                  \o <<"SetCharacterizeOn", "GetCharacterizeError">>
  IN IF missing # <<>>
     THEN <<[title |-> "Missing Required Bones", items |-> missing], <<>>>>
     ELSE IF ~is_tpose /\ reply = "Cancel"
     THEN <<[title |-> "A-Pose Detected", items |-> <<>>], <<>>>>
     ELSE <<[title |-> "Success", items |-> <<>>],
            linked \o (IF ik THEN <<"CreateControlRig">> ELSE <<>>)>>

\* CharacterMapperDialog.on_create_character: <<message, host calls>>.
\* apose: check_tpose_vs_apose saw an arm rotated past the threshold;
\* reply: the answer to the A-pose question; ik: the control-rig answer;
\* err: what GetCharacterizeError() returns
create_character(bm, apose, reply, ik, err) ==
  LET missing == MissingSlots(bm)
      is_tpose == MappingGet(bm, "LeftArm") = None
                  \/ MappingGet(bm, "RightArm") = None \/ ~apose
      pose == IF ~is_tpose /\ reply = "Yes" THEN TposeCalls(bm) ELSE <<>>
      linked == pose \o <<"FBCharacter", "SetCharacterizeOn">> \o LinkCalls(bm)
                  \o <<"SetCharacterizeOn", "GetCharacterizeError">>
  IN IF missing # <<>>
     THEN <<[title |-> "Missing Required Bones", items |-> missing], <<>>>>
     ELSE IF ~is_tpose /\ reply = "Cancel"
     THEN <<[title |-> "A-Pose Detected", items |-> <<>>], <<>>>>
     ELSE IF err # ""
     THEN <<[title |-> "Characterization Failed", items |-> <<err>>],
            linked \o <<"GetCharacterizeError">>>>
     ELSE <<[title |-> "Success", items |-> <<>>],
            linked \o (IF ik THEN <<"CreateControlRig">> ELSE <<>>)>>

on_create_character(apose, reply, ik, err) ==
  /\ MpUsable
  /\ LET r == create_character(bone_mappings, apose, reply, ik, err)
     IN mp_msg' = r[1] /\ hostCalls' = r[2]
  /\ lastOp' = "on_create_character"
  /\ UNCHANGED auxVars
  /\ raised' = FALSE /\ logged' = <<>>
  /\ rt' = NoRT
  /\ NoRefresh
  /\ UNCHANGED <<cmVars, hostVars, emVars, mp_dialog, mp_is_closing, mp_ui_ok, mpListVars,
                 bone_mappings, presetNameEdit, presetFiles>>

\* ---------------------------------------------- Character Mapper: presets
\* texts the user can have in the preset-name field
PresetTexts == {"", "Character", "Hero"}
NoFile == [exists |-> FALSE]

\* `for slot_name, model in self.bone_mappings.items(): if model:
\*      preset_data["mappings"][slot_name] = model.LongName`
PresetMappings(bm) ==
  [slot \in {x \in DOMAIN bm : bm[x] # None} |-> LongNameOf(bm[slot])]

\* CharacterMapperDialog.on_save_preset; io_ok: the file could be written
on_save_preset(io_ok) ==
  /\ MpUsable
  /\ LET preset_name == presetNameEdit
     IN IF io_ok
        THEN /\ presetFiles' = [presetFiles EXCEPT ![preset_name] =
                    [exists |-> TRUE, form |-> "ok", name |-> preset_name,
                     version |-> "1.0", mappings |-> PresetMappings(bone_mappings)]]
             /\ mp_msg' = [title |-> "Preset Saved", items |-> <<>>]
             /\ rt' = [phase |-> "saved", map |-> bone_mappings,
                       snap |-> all_models, name |-> preset_name]
             /\ logged' = <<>>
        ELSE /\ presetFiles' = presetFiles
             /\ mp_msg' = [title |-> "Error", items |-> <<>>]
             /\ rt' = NoRT
             /\ logged' = <<"Failed to save preset">>
  /\ lastOp' = "on_save_preset"
  /\ UNCHANGED auxVars
  /\ raised' = FALSE
  /\ hostCalls' = <<>>
  /\ NoRefresh
  /\ UNCHANGED <<cmVars, hostVars, emVars, mp_dialog, mp_is_closing, mp_ui_ok, mpListVars,
                 bone_mappings, presetNameEdit>>

\* the loop without its `if slot_name in self.bone_mappings` test
LoadMappings_anykey(bm, mappings, models) ==
  [slot \in DOMAIN bm \cup DOMAIN mappings |->
     IF slot \in DOMAIN mappings /\ mp_find_model_by_name(models, mappings[slot]) # None
     THEN mp_find_model_by_name(models, mappings[slot])
     ELSE IF slot \in DOMAIN bm THEN bm[slot] ELSE None]

\* the loop of on_load_preset over preset_data["mappings"].items(): every
\* known slot whose name resolves is mapped, the others keep None
LoadMappings(bm, mappings, models) ==
  [slot \in DOMAIN bm |->
     IF slot \in DOMAIN mappings /\ mp_find_model_by_name(models, mappings[slot]) # None
     THEN mp_find_model_by_name(models, mappings[slot])
     ELSE bm[slot]]

\* the preset name on_load_preset uses: the field text, "Character" if empty
LoadPresetName(text) == IF text # "" THEN text ELSE "Character"

\* CharacterMapperDialog.on_load_preset.  A file that is no JSON makes
\* json.load raise before on_clear_mapping; a file whose "mappings" is no
\* object makes .items() raise after it
on_load_preset ==
  /\ MpUsable
  /\ LET preset_name == LoadPresetName(presetNameEdit)
         file == presetFiles[preset_name]
     IN IF ~file.exists
        THEN /\ mp_msg' = [title |-> "Preset Not Found", items |-> <<>>]
             /\ bone_mappings' = bone_mappings
             /\ logged' = <<>>
        ELSE IF file.form = "bad_json"
        THEN /\ mp_msg' = [title |-> "Error", items |-> <<>>]
             /\ bone_mappings' = bone_mappings
             /\ logged' = <<"Failed to load preset">>
        ELSE IF file.form = "bad_mappings"
        THEN /\ mp_msg' = [title |-> "Error", items |-> <<>>]
             /\ bone_mappings' = on_clear_mapping(bone_mappings, mp_ui_ok)
             /\ logged' = <<"Failed to load preset">>
        ELSE /\ mp_msg' = [title |-> "Preset Loaded", items |-> <<>>]
             /\ bone_mappings' = LoadMappings(on_clear_mapping(bone_mappings, mp_ui_ok),
                                              file.mappings, all_models)
             /\ logged' = <<>>
  /\ rt' = IF rt.phase = "cleared" THEN [rt EXCEPT !.phase = "loaded"] ELSE NoRT
  /\ lastOp' = "on_load_preset"
  /\ UNCHANGED auxVars
  /\ raised' = FALSE
  /\ hostCalls' = <<>>
  /\ NoRefresh
  /\ UNCHANGED <<cmVars, hostVars, emVars, mp_dialog, mp_is_closing, mp_ui_ok, mpListVars,
                 presetNameEdit, presetFiles>>

\* files the user can pick in the Import dialog: `name` is what
\* preset_data.get("name", import_path.stem) yields; "Tail" is no slot name
\* and <<"x">> is no object's name
ImportFiles ==
  {[form |-> "ok", name |-> "Hero",
    mappings |-> ("Hips" :> <<"A", "b">>) @@ ("Tail" :> <<"b", "A">>)],
   [form |-> "ok", name |-> "Hero",
    mappings |-> ("Hips" :> <<"x">>) @@ ("Spine" :> <<"b", "A">>)],
   [form |-> "bad_mappings", name |-> "Character", mappings |-> <<>>],
   [form |-> "bad_json", name |-> "", mappings |-> <<>>]}

\* CharacterMapperDialog.on_import_preset; picked: the file dialog returned
\* a path, f: the file at that path
on_import_preset(picked, f) ==
  /\ MpUsable
  /\ IF ~picked
     THEN /\ UNCHANGED <<bone_mappings, presetNameEdit, presetFiles>>
          /\ mp_msg' = NoMsg /\ logged' = <<>>
     ELSE IF f.form = "bad_json"
     THEN /\ UNCHANGED <<bone_mappings, presetNameEdit, presetFiles>>
          /\ mp_msg' = [title |-> "Error", items |-> <<>>]
          /\ logged' = <<"Failed to import preset">>
     ELSE /\ presetFiles' = [presetFiles EXCEPT ![f.name] =
                 [exists |-> TRUE, form |-> f.form, name |-> f.name,
                  version |-> "1.0", mappings |-> f.mappings]]
          /\ presetNameEdit' = f.name
          /\ IF f.form = "bad_mappings"
             THEN /\ bone_mappings' = on_clear_mapping(bone_mappings, mp_ui_ok)
                  /\ mp_msg' = [title |-> "Error", items |-> <<>>]
                  /\ logged' = <<"Failed to import preset">>
             ELSE /\ bone_mappings' = LoadMappings(on_clear_mapping(bone_mappings, mp_ui_ok),
                                                   f.mappings, all_models)
                  /\ mp_msg' = [title |-> "Import Successful", items |-> <<>>]
                  /\ logged' = <<>>
  /\ lastOp' = "on_import_preset"
  /\ UNCHANGED auxVars
  /\ raised' = FALSE
  /\ hostCalls' = <<>> /\ rt' = NoRT
  /\ NoRefresh
  /\ UNCHANGED <<cmVars, hostVars, emVars, mp_dialog, mp_is_closing, mp_ui_ok, mpListVars>>

\* the user edits the preset-name field
EditPresetName(text) ==
  /\ MpUsable
  /\ text \in PresetTexts /\ text # presetNameEdit
  /\ presetNameEdit' = text
  /\ lastOp' = "EditPresetName"
  /\ UNCHANGED auxVars
  /\ MpQuiet
  /\ NoRefresh
  /\ UNCHANGED <<cmVars, hostVars, emVars, mp_dialog, mp_is_closing, mp_ui_ok, mpListVars,
                 bone_mappings, presetFiles>>

\* ------------------------------------------- Character Mapper: lifecycle
\* CharacterMapperDialog.__init__: the manager's registrations
MpRegister(dedup, chs) ==
  register_scene_changes(dedup,
    register_file_events(dedup, [reg |-> EmptyCallbacks, chs |-> chs],
                         "mp.on_file_event", <<"new", "open", "merge">>),
    "mp.on_scene_change")

\* execute(control, event) of character_mapper_qt; ui_ok: the .ui file exists
mp_execute(ui_ok) ==
  /\ lastOp' = "mp.execute"
  /\ UNCHANGED <<animVars, cfgVars, toolRest>>
  /\ windows' = WindowsAfterExecute("mapper", mp_dialog)
  /\ raised' = FALSE /\ logged' = <<>>
  /\ IF ~execute_creates(mp_dialog)
     THEN UNCHANGED <<hostVars, emVars, mpVars, cmVars>>
     ELSE /\ mp_dialog' = "open"
          /\ mp_is_closing' = FALSE
          /\ mp_ui_ok' = ui_ok
          /\ bone_mappings' = IF ui_ok THEN EmptyMapping ELSE <<>>
          /\ LET u == update_scene_objects(Components, ui_ok, <<>>, <<>>)
             IN /\ all_models' = IF ui_ok THEN u.all_models ELSE <<>>
                /\ objectsList' = IF ui_ok THEN u.items ELSE <<>>
                /\ ret' = IF ui_ok THEN u.ok ELSE "none"
          /\ selected_objects' = <<>>
          /\ prev_selected' = <<>>
          /\ searchEdit' = <<>>
          /\ presetNameEdit' = ""
          /\ mp_msg' = IF ui_ok THEN NoMsg ELSE [title |-> "Error", items |-> <<>>]
          /\ hostCalls' = <<>> /\ rt' = NoRT
          /\ LET st == MpRegister(hostDedup, channels)
             IN /\ registered' = [registered EXCEPT !["mapper"] = st.reg]
                /\ channels' = st.chs
          /\ removeCalls' = 0
          /\ UNCHANGED <<Components, hostDedup, Selected, presetFiles, cmVars>>

\* CharacterMapperDialog.closeEvent
mp_closeEvent ==
  /\ mp_dialog = "open"
  /\ mp_is_closing' = TRUE
  /\ LET st == unregister_all([reg |-> registered["mapper"], chs |-> channels, n |-> 0])
     IN /\ registered' = [registered EXCEPT !["mapper"] = st.reg]
        /\ channels' = st.chs
        /\ removeCalls' = st.n
  /\ mp_dialog' = "closed"
  /\ lastOp' = "mp.closeEvent"
  /\ UNCHANGED <<animVars, cfgVars, toolRest>>
  /\ windows' = WindowsAfterClose("mapper")
  /\ MpQuiet
  /\ NoRefresh
  /\ UNCHANGED <<Components, hostDedup, Selected, mp_ui_ok, mpListVars, bone_mappings,
                 presetNameEdit, presetFiles, cmVars>>

\* CharacterMapperDialog.on_file_event, run against the scene comps
mp_on_file_event(comps) ==
  IF mp_is_closing THEN UNCHANGED mpVars
  ELSE /\ LET u == update_scene_objects(comps, mp_ui_ok, objectsList, selected_objects)
          IN /\ all_models' = u.all_models
             /\ objectsList' = u.items
             /\ ret' = u.ok
       /\ prev_selected' = selected_objects
       /\ selected_objects' = <<>>
       /\ bone_mappings' = on_clear_mapping(bone_mappings, mp_ui_ok)
       /\ mp_msg' = NoMsg /\ hostCalls' = <<>> /\ rt' = NoRT
       /\ UNCHANGED <<mp_dialog, mp_is_closing, mp_ui_ok, searchEdit,
                      presetNameEdit, presetFiles>>

\* on_scene_change without the `if self._is_closing: return` guard
mp_on_scene_change_unguarded(comps, type) ==
  IF type \notin MpRelevantEvents THEN UNCHANGED mpVars
  ELSE /\ LET u == update_scene_objects(comps, mp_ui_ok, objectsList, selected_objects)
          IN /\ all_models' = u.all_models
             /\ objectsList' = u.items
             /\ selected_objects' = u.sel
             /\ ret' = u.ok
       /\ prev_selected' = selected_objects
       /\ mp_msg' = NoMsg /\ hostCalls' = <<>> /\ rt' = NoRT
       /\ UNCHANGED <<mp_dialog, mp_is_closing, mp_ui_ok, searchEdit, bone_mappings,
                      presetNameEdit, presetFiles>>

\* CharacterMapperDialog.on_scene_change, run against the scene comps
mp_on_scene_change(comps, type) ==
  IF mp_is_closing \/ type \notin MpRelevantEvents THEN UNCHANGED mpVars
  ELSE /\ LET u == update_scene_objects(comps, mp_ui_ok, objectsList, selected_objects)
          IN /\ all_models' = u.all_models
             /\ objectsList' = u.items
             /\ selected_objects' = u.sel
             /\ ret' = u.ok
       /\ prev_selected' = selected_objects
       /\ mp_msg' = NoMsg /\ hostCalls' = <<>> /\ rt' = NoRT
       /\ UNCHANGED <<mp_dialog, mp_is_closing, mp_ui_ok, searchEdit, bone_mappings,
                      presetNameEdit, presetFiles>>

\* ----------------------------------------------------- Constraint Manager
\* the relevant_events list of ConstraintManagerDialog.on_scene_change
CmRelevantEvents == {"AddChild", "RemoveChild", "Destroy", "Renamed", "Attach", "Detach"}

CmUsable == cm_dialog = "open" /\ cm_ui_ok

\* ConstraintManagerDialog.update_list_widget: the new
\* <<all_scene_objects, widget items>>; nothing changes without the widget
update_list_widget(comps, found, models, items) ==
  IF ~found THEN <<models, items>>
  ELSE <<SortByName(get_all_models(comps, TRUE)), NamesOf(SortByName(get_all_models(comps, TRUE)))>>

\* `[obj for obj in self.selected_objects if obj in self.all_scene_objects]`
KeepListed(sel, models) == SelectSeq(sel, LAMBDA obj : InList(obj, models))

\* an operation of the Constraint Manager that is not a scene-change refresh
CmQuiet == cm_msg' = NoMsg /\ cm_refreshed' = FALSE /\ raised' = FALSE /\ logged' = <<>>

\* ConstraintManagerDialog.__init__: the manager's registrations
CmRegister(dedup, chs) ==
  register_scene_changes(dedup,
    register_file_events(dedup, [reg |-> EmptyCallbacks, chs |-> chs],
                         "cm.on_file_event", <<"new", "open", "merge">>),
    "cm.on_scene_change")

\* execute(control, event) of constraint_manager_qt
cm_execute(ui_ok) ==
  /\ lastOp' = "cm.execute"
  /\ UNCHANGED <<animVars, cfgVars, ae_dialog, stVars, menuVars, utilVars, smVars,
                 constraints, cm_boxes>>
  /\ windows' = WindowsAfterExecute("cm", cm_dialog)
  /\ raised' = FALSE /\ logged' = <<>>
  /\ IF ~execute_creates(cm_dialog)
     THEN UNCHANGED <<hostVars, emVars, mpVars, cmVars, activeCheckbox, constraintTypeCombo>>
     ELSE /\ cm_dialog' = "open"
          /\ activeCheckbox' = FALSE
          /\ constraintTypeCombo' = "Parent/Child"
          /\ cm_is_closing' = FALSE
          /\ cm_ui_ok' = ui_ok
          /\ LET u == update_list_widget(Components, ui_ok, <<>>, <<>>)
             IN all_scene_objects' = u[1] /\ selectionList' = u[2]
          /\ cm_selected_objects' = <<>>
          /\ constraint_parents' = <<>>
          /\ constraint_children' = <<>>
          /\ cm_msg' = IF ui_ok THEN NoMsg ELSE [title |-> "Error", items |-> <<>>]
          /\ cm_refreshed' = FALSE
          /\ LET st == CmRegister(hostDedup, channels)
             IN /\ registered' = [registered EXCEPT !["cm"] = st.reg]
                /\ channels' = st.chs
          /\ removeCalls' = 0
          /\ UNCHANGED <<Components, hostDedup, Selected, mpVars>>

\* ConstraintManagerDialog.closeEvent
cm_closeEvent ==
  /\ cm_dialog = "open"
  /\ cm_is_closing' = TRUE
  /\ LET st == unregister_all([reg |-> registered["cm"], chs |-> channels, n |-> 0])
     IN /\ registered' = [registered EXCEPT !["cm"] = st.reg]
        /\ channels' = st.chs
        /\ removeCalls' = st.n
  /\ cm_dialog' = "closed"
  /\ lastOp' = "cm.closeEvent"
  /\ UNCHANGED <<animVars, cfgVars, toolRest>>
  /\ windows' = WindowsAfterClose("cm")
  /\ CmQuiet
  /\ UNCHANGED <<Components, hostDedup, Selected, mpVars, cm_ui_ok, all_scene_objects, cmRoleVars,
                 selectionList>>

\* an on_file_event that clears the selection but neither role list
cm_on_file_event_keep_roles(comps) ==
  IF cm_is_closing THEN UNCHANGED cmVars
  ELSE /\ LET u == update_list_widget(comps, cm_ui_ok, all_scene_objects, selectionList)
          IN all_scene_objects' = u[1] /\ selectionList' = u[2]
       /\ cm_selected_objects' = <<>>
       /\ cm_msg' = NoMsg /\ cm_refreshed' = FALSE
       /\ UNCHANGED <<cm_dialog, cm_is_closing, cm_ui_ok, constraint_parents,
                      constraint_children>>

\* ConstraintManagerDialog.on_file_event, run against the scene comps
cm_on_file_event(comps) ==
  IF cm_is_closing THEN UNCHANGED cmVars
  ELSE /\ LET u == update_list_widget(comps, cm_ui_ok, all_scene_objects, selectionList)
          IN all_scene_objects' = u[1] /\ selectionList' = u[2]
       /\ cm_selected_objects' = <<>>
       /\ constraint_parents' = <<>>
       /\ constraint_children' = <<>>
       /\ cm_msg' = NoMsg /\ cm_refreshed' = FALSE
       /\ UNCHANGED <<cm_dialog, cm_is_closing, cm_ui_ok>>

\* ConstraintManagerDialog.on_scene_change, run against the scene comps
cm_on_scene_change(comps, type) ==
  IF cm_is_closing \/ type \notin CmRelevantEvents THEN UNCHANGED cmVars
  ELSE /\ LET u == update_list_widget(comps, cm_ui_ok, all_scene_objects, selectionList)
          IN /\ all_scene_objects' = u[1]
             /\ selectionList' = u[2]
             /\ cm_selected_objects' = KeepListed(cm_selected_objects, u[1])
       /\ cm_msg' = NoMsg /\ cm_refreshed' = TRUE
       /\ UNCHANGED <<cm_dialog, cm_is_closing, cm_ui_ok, constraint_parents,
                      constraint_children>>

\* ConstraintManagerDialog.on_refresh_clicked
cm_on_refresh_clicked ==
  /\ CmUsable
  /\ LET u == update_list_widget(Components, cm_ui_ok, all_scene_objects, selectionList)
     IN all_scene_objects' = u[1] /\ selectionList' = u[2]
  /\ lastOp' = "cm.on_refresh_clicked"
  /\ UNCHANGED auxVars
  /\ CmQuiet
  /\ UNCHANGED <<hostVars, emVars, mpVars, cm_dialog, cm_is_closing, cm_ui_ok, cmRoleVars>>

\* ConstraintManagerDialog.on_list_item_clicked(item)
on_list_item_clicked(i, ctrl) ==
  /\ CmUsable
  /\ i \in 1..Len(selectionList)
  /\ LET model == FirstByName(all_scene_objects, selectionList[i])
     IN /\ cm_selected_objects' =
          IF model = None THEN cm_selected_objects
          ELSE IF ctrl
               THEN IF InList(model, cm_selected_objects)
                    THEN ListRemove(cm_selected_objects, model)
                    ELSE Append(cm_selected_objects, model)
               ELSE <<model>>
        /\ Selected' =
             IF model = None THEN Selected
             ELSE IF ctrl
                  THEN IF InList(model, cm_selected_objects)
                       THEN Selected \ {model}
                       ELSE Selected \cup {model}
                  ELSE (Selected \ Range(cm_selected_objects)) \cup {model}
  /\ lastOp' = "cm.on_list_item_clicked"
  /\ UNCHANGED auxVars
  /\ CmQuiet
  /\ UNCHANGED <<Components, channels, hostDedup, emVars, mpVars, cm_dialog, cm_is_closing, cm_ui_ok,
                 all_scene_objects, constraint_parents, constraint_children, selectionList>>

\* ConstraintManagerDialog.on_clear_selection
on_clear_selection ==
  /\ CmUsable
  /\ cm_selected_objects' = <<>>
  /\ Selected' = Selected \ Range(cm_selected_objects)
  /\ lastOp' = "cm.on_clear_selection"
  /\ UNCHANGED auxVars
  /\ CmQuiet
  /\ UNCHANGED <<Components, channels, hostDedup, emVars, mpVars, cm_dialog, cm_is_closing, cm_ui_ok,
                 all_scene_objects, constraint_parents, constraint_children, selectionList>>

\* ConstraintManagerDialog.on_set_parent
on_set_parent ==
  /\ CmUsable
  /\ IF cm_selected_objects = <<>>
     THEN /\ cm_msg' = [title |-> "No Selection", items |-> <<>>]
          /\ constraint_parents' = constraint_parents
     ELSE /\ cm_msg' = [title |-> "Parent Set", items |-> NamesOf(cm_selected_objects)]
          /\ constraint_parents' = cm_selected_objects
  /\ lastOp' = "cm.on_set_parent"
  /\ UNCHANGED auxVars
  /\ cm_refreshed' = FALSE /\ raised' = FALSE /\ logged' = <<>>
  /\ UNCHANGED <<hostVars, emVars, mpVars, cm_dialog, cm_is_closing, cm_ui_ok,
                 all_scene_objects, cm_selected_objects, constraint_children, selectionList>>

\* ConstraintManagerDialog.on_set_child
on_set_child ==
  /\ CmUsable
  /\ IF cm_selected_objects = <<>>
     THEN /\ cm_msg' = [title |-> "No Selection", items |-> <<>>]
          /\ constraint_children' = constraint_children
     ELSE /\ cm_msg' = [title |-> "Child Set", items |-> NamesOf(cm_selected_objects)]
          /\ constraint_children' = cm_selected_objects
  /\ lastOp' = "cm.on_set_child"
  /\ UNCHANGED auxVars
  /\ cm_refreshed' = FALSE /\ raised' = FALSE /\ logged' = <<>>
  /\ UNCHANGED <<hostVars, emVars, mpVars, cm_dialog, cm_is_closing, cm_ui_ok,
                 all_scene_objects, cm_selected_objects, constraint_parents, selectionList>>

\* ------------------------------------------------- constraint creation
\* most constraints a session creates
MaxConstraints == 2

\* the keys of constraint_map in on_active_changed
ConstraintTypes == {"Parent/Child", "Position", "Rotation", "Aim", "Relation"}

\* `self.constraint_children if self.constraint_children else self.selected_objects`
ConstraintTargets(children, selected) == IF children # <<>> THEN children ELSE selected

\* a validation that accepts a setup without parents
validate_constraint_setup_children_only(parents, targets) ==
  IF targets = <<>> THEN "No Child" ELSE ""

\* ConstraintManagerDialog._validate_constraint_setup: the title of the
\* warning it shows, "" when the setup is valid
validate_constraint_setup(parents, targets) ==
  IF parents = <<>> THEN "No Parent"
  ELSE IF targets = <<>> THEN "No Child"
  ELSE ""

\* the constraint the loop of on_active_changed builds for one target
NewConstraint(type, target, parents, is_active) ==
  [type |-> type, group0 |-> <<target>>, group1 |-> parents, active |-> is_active]

\* the constraints built for the first n targets
CreatedFor(type, targets, n, parents, is_active) ==
  [i \in 1..n |-> NewConstraint(type, targets[i], parents, is_active)]

Box(title, n) == [title |-> title, n |-> n]

\* host failures of one checkbox change: one entry per run of
\* on_active_changed, 0 when no host call raises, k when creating the k-th
\* constraint of that run raises
ErrSeqs == {<<>>, <<1>>, <<1, 1>>}

\* one run of on_active_changed(state) on s = [box, cons, boxes, logged];
\* activeCheckbox.setChecked(False) on a checked box emits stateChanged(0),
\* which runs the handler again before setChecked returns
RECURSIVE RunActiveChanged(_, _, _)
RunActiveChanged(state, s, errs) ==
  LET is_active == state = 2
      err == IF errs = <<>> THEN 0 ELSE Head(errs)
      rest == IF errs = <<>> THEN <<>> ELSE Tail(errs)
      parents == constraint_parents
      targets == ConstraintTargets(constraint_children, cm_selected_objects)
      type == constraintTypeCombo
      problem == validate_constraint_setup(parents, targets)
      Shown(t, title, n) == [t EXCEPT !.boxes = Append(@, Box(title, n))]
      SetUnchecked(t) ==
        IF t.box THEN RunActiveChanged(0, [t EXCEPT !.box = FALSE], rest) ELSE t
  IN IF problem # "" THEN SetUnchecked(Shown(s, problem, 0))
     ELSE IF type \notin ConstraintTypes
          THEN SetUnchecked(Shown(s, "Error", 0))
     ELSE IF type = "Relation"
          THEN IF err = 0
               THEN Shown(Shown([s EXCEPT !.cons =
                                   Append(@, [type |-> "Relation", group0 |-> <<>>,
                                              group1 |-> <<>>, active |-> TRUE])],
                                "Relation Constraint", 0), "Success", 0)
               ELSE Shown(Shown([s EXCEPT !.logged =
                                   Append(@, "Failed to create relation constraint")],
                                "Relation Constraint", 0), "Error", 0)
     ELSE IF err = 0 \/ err > Len(targets)
          THEN Shown([s EXCEPT !.cons =
                        @ \o CreatedFor(type, targets, Len(targets), parents, is_active)],
                     "Success", Len(targets))
          ELSE SetUnchecked(
                 Shown([s EXCEPT !.cons =
                          @ \o CreatedFor(type, targets, err - 1, parents, is_active),
                        !.logged = Append(@, "Failed to create constraint")],
                       "Error", 0))

\* the user clicks the Active checkbox: stateChanged runs on_active_changed
on_active_changed(errs) ==
  /\ CmUsable
  /\ LET r == RunActiveChanged(IF activeCheckbox THEN 0 ELSE 2,
                               [box |-> ~activeCheckbox, cons |-> constraints,
                                boxes |-> <<>>, logged |-> <<>>], errs)
     IN /\ Len(r.cons) <= MaxConstraints
        /\ activeCheckbox' = r.box
        /\ constraints' = r.cons
        /\ cm_boxes' = r.boxes
        /\ logged' = r.logged
        /\ cm_msg' = IF r.boxes = <<>> THEN NoMsg
                     ELSE [title |-> r.boxes[Len(r.boxes)].title, items |-> <<>>]
  /\ lastOp' = "cm.on_active_changed"
  /\ cm_refreshed' = FALSE /\ raised' = FALSE
  /\ UNCHANGED <<hostVars, emVars, mpVars, cm_dialog, cm_is_closing, cm_ui_ok,
                 all_scene_objects, cmRoleVars, selectionList, animVars, cfgVars, windows,
                 ae_dialog, stVars, menuVars, utilVars, smVars, constraintTypeCombo>>

\* the user picks a constraint type in the combo box
SetConstraintType(type) ==
  /\ CmUsable
  /\ type \in ConstraintTypes
  /\ constraintTypeCombo' = type
  /\ cm_boxes' = <<>>
  /\ lastOp' = "SetConstraintType"
  /\ CmQuiet
  /\ UNCHANGED <<hostVars, emVars, mpVars, cm_dialog, cm_is_closing, cm_ui_ok,
                 all_scene_objects, cmRoleVars, selectionList, animVars, cfgVars, windows,
                 ae_dialog, stVars, menuVars, utilVars, smVars, activeCheckbox, constraints>>

\* ------------------------------------------------------------------ host
\* FBSceneChangeType values the host sends with OnChange
EventTypes == {"AddChild", "RemoveChild", "Destroy", "Renamed", "Attach", "Detach",
               "Select"}

\* the types the notifications of the model carry: relevant to both
\* dialogs, to the Constraint Manager only, to neither
SentTypes == {"Destroy", "Attach", "Select"}

\* an event object without a Type attribute
NoType == "<no Type>"

Attached(cb, ch) == InList(cb, channels[ch])

\* the host calls every callback attached to scene.OnChange.  Reading
\* pEvent.Type of an event that has none raises AttributeError in a handler
\* that passed its _is_closing test, before it changes anything
DeliverSceneChange(comps, type) ==
  /\ IF Attached("mp.on_scene_change", "OnChange")
     THEN mp_on_scene_change(comps, type) ELSE UNCHANGED mpVars
  /\ IF Attached("cm.on_scene_change", "OnChange")
     THEN cm_on_scene_change(comps, type) ELSE UNCHANGED cmVars
  /\ raised' = /\ type = NoType
               /\ \/ Attached("mp.on_scene_change", "OnChange") /\ ~mp_is_closing
                  \/ Attached("cm.on_scene_change", "OnChange") /\ ~cm_is_closing
  /\ logged' = <<>>

\* the channel of a file operation
FileChannel(kind) ==
  CASE kind = "new" -> "OnFileNewCompleted"
    [] kind = "open" -> "OnFileOpenCompleted"
    [] kind = "merge" -> "OnFileMerge"
    [] OTHER -> "OnFileSaveCompleted"

\* ========================================================== SceneMonitor
\* the callbacks a test script or a tool hands to add_listener
Listeners == {"L1", "L2"}

\* `':' in name`
HasColon(name) == \E i \in 1..Len(name) : name[i] = ":"

\* name.split(':')[0]
RECURSIVE BeforeColon(_)
BeforeColon(name) ==
  IF name = <<>> \/ Head(name) = ":" THEN <<>>
  ELSE <<Head(name)>> \o BeforeColon(Tail(name))

\* sorted(a set of texts)
RECURSIVE SortedTexts(_)
SortedTexts(S) ==
  IF S = {} THEN <<>>
  ELSE LET m == CHOOSE x \in S : \A y \in S \ {x} : StrLess(x, y)
       IN <<m>> \o SortedTexts(S \ {m})

\* SceneMonitor.get_scene_info
get_scene_info(objs, nss, has) ==
  [has_objects |-> has, namespaces |-> nss, object_count |-> Len(objs)]

\* SceneMonitor.get_namespaces / has_namespace
get_namespaces(nss) == SortedTexts(nss)
has_namespace(nss, namespace) == namespace \in nss

\* notify_listeners calling the listeners outside any try block: the first
\* listener that raises ends the loop
RECURSIVE notify_listeners_no_try(_, _, _)
notify_listeners_no_try(ls, fails, scene_info) ==
  IF ls = <<>> THEN <<>>
  ELSE IF Head(ls) \in fails THEN <<[listener |-> Head(ls), info |-> scene_info]>>
  ELSE <<[listener |-> Head(ls), info |-> scene_info]>>
       \o notify_listeners_no_try(Tail(ls), fails, scene_info)

\* SceneMonitor.notify_listeners: the calls it makes, in order; a listener
\* that raises is reported and the loop goes on
notify_listeners(ls, fails, scene_info) ==
  [i \in 1..Len(ls) |-> [listener |-> ls[i], info |-> scene_info]]

\* SceneMonitor.scan_scene over the components comps
scan_scene(comps, ls, fails) ==
  LET nss == {BeforeColon(NameOf(c)) : c \in {x \in Range(comps) : HasColon(NameOf(x))}}
      has == Len(comps) > 0
  IN [scene_objects |-> comps, namespaces |-> nss, has_objects |-> has,
      notified |-> notify_listeners(ls, fails, get_scene_info(comps, nss, has))]

\* the monitor's state after a scan of comps
SmScan(comps) ==
  LET r == scan_scene(comps, listeners, failing)
  IN /\ scene_objects' = r.scene_objects
     /\ sm_namespaces' = r.namespaces
     /\ has_objects' = r.has_objects
     /\ sm_notified' = r.notified

\* on_file_new / on_file_open / on_file_merge of the monitor
sm_callback(kind) ==
  CASE kind = "new" -> "sm.on_file_new"
    [] kind = "open" -> "sm.on_file_open"
    [] OTHER -> "sm.on_file_merge"

\* the three .Add calls of register_callbacks
SmAttach(dedup, chs) ==
  HostAdd(dedup,
    HostAdd(dedup,
      HostAdd(dedup, chs, "OnFileNewCompleted", "sm.on_file_new"),
      "OnFileOpenCompleted", "sm.on_file_open"),
    "OnFileMerge", "sm.on_file_merge")

\* the three .Remove calls of unregister_callbacks
SmDetach(chs) ==
  HostRemove(
    HostRemove(
      HostRemove(chs, "OnFileNewCompleted", "sm.on_file_new"),
      "OnFileOpenCompleted", "sm.on_file_open"),
    "OnFileMerge", "sm.on_file_merge")

\* everything but the monitor and the host channels
SmFrame ==
  /\ raised' = FALSE /\ logged' = <<>>
  /\ UNCHANGED <<Components, hostDedup, Selected, emVars, mpVars, cmVars, animVars, cfgVars,
                 windows, ae_dialog, stVars, menuVars, utilVars, ccVars>>

\* SceneMonitor.register_callbacks
register_callbacks ==
  /\ sm_monitor = "made"
  /\ IF callbacks_registered
     THEN UNCHANGED <<channels, smVars>>
     ELSE /\ channels' = SmAttach(hostDedup, channels)
          /\ callbacks_registered' = TRUE
          /\ SmScan(Components)
          /\ UNCHANGED <<sm_monitor, listeners, failing>>
  /\ lastOp' = "register_callbacks"
  /\ SmFrame

\* SceneMonitor.unregister_callbacks
unregister_callbacks ==
  /\ sm_monitor = "made"
  /\ IF ~callbacks_registered
     THEN UNCHANGED <<channels, smVars>>
     ELSE /\ channels' = SmDetach(channels)
          /\ callbacks_registered' = FALSE
          /\ UNCHANGED <<sm_monitor, scene_objects, sm_namespaces, has_objects, listeners,
                         failing, sm_notified>>
  /\ lastOp' = "unregister_callbacks"
  /\ SmFrame

\* get_scene_monitor(): the first call builds the monitor, registers its
\* callbacks and scans
get_scene_monitor ==
  /\ IF sm_monitor = "made"
     THEN UNCHANGED <<channels, smVars>>
     ELSE /\ sm_monitor' = "made"
          /\ channels' = SmAttach(hostDedup, channels)
          /\ callbacks_registered' = TRUE
          /\ SmScan(Components)
          /\ UNCHANGED <<listeners, failing>>
  /\ lastOp' = "get_scene_monitor"
  /\ SmFrame

\* add_listener without the `callback not in self.listeners` test
add_listener_no_dedup(callback, fails) ==
  /\ sm_monitor = "made"
  /\ listeners' = Append(listeners, callback)
  /\ failing' = IF fails THEN failing \cup {callback} ELSE failing \ {callback}
  /\ lastOp' = "add_listener"
  /\ SmFrame
  /\ UNCHANGED <<channels, sm_monitor, callbacks_registered, scene_objects, sm_namespaces,
                 has_objects, sm_notified>>

\* SceneMonitor.add_listener(callback); fails: the callback raises when called
add_listener(callback, fails) ==
  /\ sm_monitor = "made"
  /\ IF InList(callback, listeners)
     THEN UNCHANGED <<listeners, failing>>
     ELSE /\ listeners' = Append(listeners, callback)
          /\ failing' = IF fails THEN failing \cup {callback} ELSE failing \ {callback}
  /\ lastOp' = "add_listener"
  /\ SmFrame
  /\ UNCHANGED <<channels, sm_monitor, callbacks_registered, scene_objects, sm_namespaces,
                 has_objects, sm_notified>>

\* SceneMonitor.remove_listener(callback)
remove_listener(callback) ==
  /\ sm_monitor = "made"
  /\ listeners' = ListRemove(listeners, callback)
  /\ lastOp' = "remove_listener"
  /\ SmFrame
  /\ UNCHANGED <<channels, sm_monitor, callbacks_registered, scene_objects, sm_namespaces,
                 has_objects, failing, sm_notified>>

\* a caller runs SceneMonitor.scan_scene()
sm_scan_scene ==
  /\ sm_monitor = "made"
  /\ SmScan(Components)
  /\ lastOp' = "scan_scene"
  /\ SmFrame
  /\ UNCHANGED <<channels, sm_monitor, callbacks_registered, listeners, failing>>

\* the namespaces the loop of scan_scene collects from comps
ScannedNamespaces(comps) ==
  {BeforeColon(NameOf(c)) : c \in {x \in Range(comps) : HasColon(NameOf(x))}}

\* a caller runs SceneMonitor.scan_scene() and the host raises in the loop
\* at the k-th component (k = 1 also when scene.Components cannot be read):
\* the snapshot was reset and holds the components before k, has_objects
\* is not assigned, no listener is called and the error is logged
sm_scan_scene_raises(k) ==
  /\ sm_monitor = "made"
  /\ k \in 1..Len(Components) \cup {1}
  /\ scene_objects' = SubSeq(Components, 1, k - 1)
  /\ sm_namespaces' = ScannedNamespaces(SubSeq(Components, 1, k - 1))
  /\ sm_notified' = <<>>
  /\ lastOp' = "scan_scene"
  /\ raised' = FALSE /\ logged' = <<"Scene scan failed">>
  /\ UNCHANGED <<hostVars, emVars, mpVars, cmVars, animVars, cfgVars, windows, ae_dialog,
                 stVars, menuVars, utilVars, ccVars, sm_monitor, callbacks_registered,
                 has_objects, listeners, failing>>

\* the file event reaches the monitor when its callback is attached
sm_on_file_event(comps, kind) ==
  IF kind # "save" /\ InList(sm_callback(kind), channels[FileChannel(kind)])
  THEN SmScan(comps) /\ UNCHANGED <<sm_monitor, callbacks_registered, listeners, failing>>
  ELSE UNCHANGED smVars

\* the host calls every callback attached to the channel of a file operation;
\* on_file_event of a Character Mapper without widgets raises in
\* on_clear_mapping
DeliverFileEvent(comps, kind) ==
  /\ IF Attached("mp.on_file_event", FileChannel(kind))
     THEN mp_on_file_event(comps) ELSE UNCHANGED mpVars
  /\ IF Attached("cm.on_file_event", FileChannel(kind))
     THEN cm_on_file_event(comps) ELSE UNCHANGED cmVars
  /\ raised' = (Attached("mp.on_file_event", FileChannel(kind))
                /\ ~mp_is_closing /\ ~mp_ui_ok)
  /\ logged' = <<>>

\* scene.Components of a set of live objects: the host lists the components
\* in creation order, and the identities are numbered in that order
SceneOf(S) == SelectSeq([i \in 1..NumObjects |-> i], LAMBDA o : o \in S)

\* the user (or a script) deletes an object of the scene
HostRemoveObject(o, type) ==
  /\ InList(o, Components)
  /\ Components' = SelectSeq(Components, LAMBDA c : c # o)
  /\ Selected' = Selected \ {o}
  /\ DeliverSceneChange(Components', type)
  /\ lastOp' = "HostRemoveObject"
  /\ UNCHANGED auxVars
  /\ UNCHANGED <<channels, hostDedup, emVars>>

\* the user (or a script) creates an object
HostAddObject(o, type) ==
  /\ o \in Objects /\ ~InList(o, Components)
  /\ Components' = SceneOf(Range(Components) \cup {o})
  /\ DeliverSceneChange(Components', type)
  /\ lastOp' = "HostAddObject"
  /\ UNCHANGED auxVars
  /\ UNCHANGED <<channels, hostDedup, Selected, emVars>>

\* a scene notification that changes no component (select, rename, ...)
HostSceneEvent(type) ==
  /\ DeliverSceneChange(Components, type)
  /\ lastOp' = "HostSceneEvent"
  /\ UNCHANGED auxVars
  /\ UNCHANGED <<hostVars, emVars>>

\* File > New / Open / Merge / Save completed with the scene comps
HostFileEvent(kind, comps) ==
  /\ kind \in {"new", "open", "merge", "save"}
  /\ kind = "new" => comps = <<>>
  /\ kind = "save" => comps = Components
  /\ kind = "merge" => /\ Len(comps) > Len(Components)
                       /\ Range(Components) \subseteq Range(comps)
  /\ Components' = comps
  /\ Selected' = IF kind \in {"new", "open"} THEN {} ELSE Selected
  /\ DeliverFileEvent(comps, kind)
  /\ sm_on_file_event(comps, kind)
  /\ lastOp' = "HostFileEvent"
  /\ UNCHANGED <<animVars, cfgVars, windows, ae_dialog, stVars, menuVars, utilVars, ccVars>>
  /\ UNCHANGED <<channels, hostDedup, emVars>>

\* a notification that reaches a handler of a dialog being closed or
\* already closed (the host held the bound method when closeEvent ran)
LateSceneEvent(type) ==
  /\ mp_dialog = "closed" \/ cm_dialog = "closed"
  /\ IF mp_dialog = "closed" THEN mp_on_scene_change(Components, type)
     ELSE UNCHANGED mpVars
  /\ IF cm_dialog = "closed" THEN cm_on_scene_change(Components, type)
     ELSE UNCHANGED cmVars
  /\ raised' = FALSE /\ logged' = <<>>
  /\ lastOp' = "LateSceneEvent"
  /\ UNCHANGED auxVars
  /\ UNCHANGED <<hostVars, emVars>>

LateFileEvent ==
  /\ mp_dialog = "closed" \/ cm_dialog = "closed"
  /\ IF mp_dialog = "closed" THEN mp_on_file_event(Components) ELSE UNCHANGED mpVars
  /\ IF cm_dialog = "closed" THEN cm_on_file_event(Components) ELSE UNCHANGED cmVars
  /\ raised' = FALSE /\ logged' = <<>>
  /\ lastOp' = "LateFileEvent"
  /\ UNCHANGED auxVars
  /\ UNCHANGED <<hostVars, emVars>>

\* ---------------------------------------------------------- initial state
HostInit(comps) ==
  /\ Components = comps
  /\ channels = [c \in ChannelNames |-> <<>>]
  /\ hostDedup = FALSE
  /\ Selected = {}

EmInit ==
  /\ registered = [m \in {"em", "mapper", "cm"} |-> EmptyCallbacks]
  /\ removeCalls = 0
  /\ lastOp = "init"
  /\ raised = FALSE
  /\ logged = <<>>

\* no Character Mapper dialog has been created
MpInit ==
  /\ mp_dialog = "none" /\ mp_is_closing = FALSE /\ mp_ui_ok = FALSE
  /\ all_models = <<>> /\ selected_objects = <<>> /\ objectsList = <<>>
  /\ searchEdit = <<>> /\ bone_mappings = <<>>
  /\ presetNameEdit = "" /\ presetFiles = [n \in PresetTexts |-> NoFile]
  /\ mp_msg = NoMsg /\ hostCalls = <<>> /\ rt = NoRT
  /\ ret = "none" /\ prev_selected = <<>>

\* no Constraint Manager dialog has been created
CmInit ==
  /\ cm_dialog = "none" /\ cm_is_closing = FALSE /\ cm_ui_ok = FALSE
  /\ all_scene_objects = <<>> /\ cm_selected_objects = <<>>
  /\ constraint_parents = <<>> /\ constraint_children = <<>>
  /\ selectionList = <<>> /\ cm_msg = NoMsg /\ cm_refreshed = FALSE

\* scenes a session can start with
Scenes == {SceneOf(S) : S \in SUBSET Objects}

\* search texts the user types
SearchTexts == {<<>>, <<"a">>, <<"B">>, <<"a", "B">>, <<"b", "a">>, <<"n">>}

\* ------------------------------------------------- int() and str() on text
IsDigit(c) == Code(c) >= 48 /\ Code(c) <= 57

\* str.strip() (the only whitespace of the alphabet is the blank)
RECURSIVE LStrip(_)
LStrip(s) == IF s # <<>> /\ Head(s) = " " THEN LStrip(Tail(s)) ELSE s

RECURSIVE RStrip(_)
RStrip(s) ==
  IF s # <<>> /\ s[Len(s)] = " " THEN RStrip(SubSeq(s, 1, Len(s) - 1)) ELSE s

Strip(s) == RStrip(LStrip(s))

\* the digits of an int literal: at least one digit, underscores only
\* singly between digits
WellFormedDigits(d) ==
  /\ d # <<>>
  /\ \A i \in 1..Len(d) : IsDigit(d[i]) \/ d[i] = "_"
  /\ IsDigit(d[1]) /\ IsDigit(d[Len(d)])
  /\ \A i \in 1..(Len(d) - 1) : ~(d[i] = "_" /\ d[i + 1] = "_")

RECURSIVE DigitsValue(_, _)
DigitsValue(d, acc) ==
  IF d = <<>> THEN acc
  ELSE IF Head(d) = "_" THEN DigitsValue(Tail(d), acc)
  ELSE DigitsValue(Tail(d), 10 * acc + (Code(Head(d)) - 48))

\* int(text): [ok, v]; ok = FALSE stands for ValueError
ParseInt(text) ==
  LET t == Strip(text)
      signed == t # <<>> /\ (Head(t) = "+" \/ Head(t) = "-")
      d == IF signed THEN Tail(t) ELSE t
  IN IF ~WellFormedDigits(d) THEN [ok |-> FALSE, v |-> 0]
     ELSE [ok |-> TRUE,
           v |-> IF signed /\ Head(t) = "-" THEN 0 - DigitsValue(d, 0)
                 ELSE DigitsValue(d, 0)]

DigitChar(n) ==
  CASE n = 0 -> "0" [] n = 1 -> "1" [] n = 2 -> "2" [] n = 3 -> "3" [] n = 4 -> "4"
    [] n = 5 -> "5" [] n = 6 -> "6" [] n = 7 -> "7" [] n = 8 -> "8" [] OTHER -> "9"

RECURSIVE NatToStr(_)
NatToStr(n) == IF n < 10 THEN <<DigitChar(n)>> ELSE NatToStr(n \div 10) \o <<DigitChar(n % 10)>>

\* str(int)
IntToStr(n) == IF n < 0 THEN <<"-">> \o NatToStr(0 - n) ELSE NatToStr(n)

\* ----------------------------------------------------------- Anim Exporter
\* rows the animation table may hold
MaxRows == 2

NoData == [set |-> FALSE]

\* the validation comparing the frames with `<`: equal frames pass
ValidateAnimation_lt(name, start_text, end_text) ==
  IF Strip(name) = <<>> THEN "Animation Name is required!"
  ELSE IF ~ParseInt(start_text).ok \/ ~ParseInt(end_text).ok
       THEN "Start Frame and End Frame must be valid numbers!"
  ELSE IF ParseInt(end_text).v < ParseInt(start_text).v
       THEN "End Frame must be greater than Start Frame!"
  ELSE ""

\* AddAnimationDialog.on_accept, the validation: "" when the input is
\* accepted, the warning text otherwise
ValidateAnimation(name, start_text, end_text) ==
  IF Strip(name) = <<>> THEN "Animation Name is required!"
  ELSE IF ~ParseInt(start_text).ok \/ ~ParseInt(end_text).ok
       THEN "Start Frame and End Frame must be valid numbers!"
  ELSE IF ParseInt(end_text).v <= ParseInt(start_text).v
       THEN "End Frame must be greater than Start Frame!"
  ELSE ""

\* AnimExporterDialog._create_animation_property(row_index, anim_data)
create_animation_property(props, row_index, anim_data) ==
  [i \in DOMAIN props \cup {row_index} |-> IF i = row_index THEN anim_data ELSE props[i]]

\* AnimExporterDialog.on_add_animation up to dialog.exec_(): the dialog is
\* built with the player's loop range as defaults
on_add_animation(default_start, default_end) ==
  /\ ad_state # "open"
  /\ Len(animation_table) < MaxRows
  /\ ad_state' = "open"
  /\ name_input' = <<>>
  /\ start_frame_input' = IntToStr(default_start)
  /\ end_frame_input' = IntToStr(default_end)
  /\ animation_data' = NoData
  /\ ad_msg' = ""
  /\ lastOp' = "on_add_animation"
  /\ raised' = FALSE /\ logged' = <<>>
  /\ UNCHANGED <<hostVars, emVars, mpVars, cmVars, cfgVars, toolVars, animation_table, note_props>>

\* the user types into a field of the open AddAnimationDialog
EditAnimationField(field, text) ==
  /\ ad_state = "open"
  /\ field \in {"name", "start", "end"}
  /\ name_input' = IF field = "name" THEN text ELSE name_input
  /\ start_frame_input' = IF field = "start" THEN text ELSE start_frame_input
  /\ end_frame_input' = IF field = "end" THEN text ELSE end_frame_input
  /\ ad_msg' = ""
  /\ lastOp' = "EditAnimationField"
  /\ raised' = FALSE /\ logged' = <<>>
  /\ UNCHANGED <<hostVars, emVars, mpVars, cmVars, cfgVars, toolVars, ad_state, animation_data,
                 animation_table, note_props>>

\* AddAnimationDialog.on_accept; when it accepts, exec_() returns Accepted
\* and on_add_animation adds the row and creates its note property
on_accept ==
  /\ ad_state = "open"
  /\ LET msg == ValidateAnimation(name_input, start_frame_input, end_frame_input)
         data == [set |-> TRUE, name |-> Strip(name_input),
                  start_frame |-> ParseInt(start_frame_input).v,
                  end_frame |-> ParseInt(end_frame_input).v]
     IN /\ ad_msg' = msg
        /\ IF msg # ""
           THEN UNCHANGED <<ad_state, animation_data, animation_table, note_props>>
           ELSE /\ ad_state' = "accepted"
                /\ animation_data' = data
                /\ animation_table' = Append(animation_table,
                       [name |-> data.name, start |-> IntToStr(data.start_frame),
                        end |-> IntToStr(data.end_frame)])
                /\ note_props' = create_animation_property(note_props,
                                     Len(animation_table), data)
  /\ lastOp' = "on_accept"
  /\ raised' = FALSE /\ logged' = <<>>
  /\ UNCHANGED <<hostVars, emVars, mpVars, cmVars, cfgVars, toolVars, name_input,
                 start_frame_input, end_frame_input>>

\* the Cancel button: QDialog.reject, exec_() returns Rejected
ad_reject ==
  /\ ad_state = "open"
  /\ ad_state' = "rejected"
  /\ ad_msg' = ""
  /\ lastOp' = "ad_reject"
  /\ raised' = FALSE /\ logged' = <<>>
  /\ UNCHANGED <<hostVars, emVars, mpVars, cmVars, cfgVars, toolVars, name_input, start_frame_input,
                 end_frame_input, animation_data, animation_table, note_props>>

AnimInit ==
  /\ ad_state = "none" /\ name_input = <<>> /\ start_frame_input = <<>>
  /\ end_frame_input = <<>> /\ animation_data = NoData /\ ad_msg = ""
  /\ animation_table = <<>> /\ note_props = <<>>

\* ----------------------------------------------------------- ConfigManager
\* nesting depth of the mappings a configuration is drawn from
MaxDepth == 3
\* segments of a dotted key
MaxSegs == 3

\* a JSON value is [t |-> "str", v] or [t |-> "dict", m], m a function from
\* key texts to JSON values; [t |-> "none"] is Python's None
CfgLeaves == {[t |-> "str", v |-> "x"]}
CfgKeys == {<<"a">>, <<"b">>}
CfgNone == [t |-> "none"]
CfgDict(m) == [t |-> "dict", m |-> m]

\* JSON values nested up to d levels: a leaf, or a mapping in which "a"
\* (when present) holds a value nested up to d - 1 levels and "b" (when
\* present) holds a leaf
RECURSIVE CfgValues(_)
CfgValues(d) ==
  IF d = 0 THEN CfgLeaves
  ELSE CfgLeaves \cup
       {CfgDict(m) : m \in {f \in UNION {[K -> CfgValues(d - 1)] : K \in SUBSET CfgKeys} :
                               <<"b">> \in DOMAIN f => f[<<"b">>] \in CfgLeaves}}

\* a mapping nested one level deeper than CfgValues reaches: a -> a -> ... -> "x"
RECURSIVE CfgChain(_)
CfgChain(d) ==
  IF d = 0 THEN [t |-> "str", v |-> "x"]
  ELSE CfgDict([k \in {<<"a">>} |-> CfgChain(d - 1)])

\* configurations _load_config can produce
Configs == {c \in CfgValues(MaxDepth) : c.t = "dict"} \cup {CfgChain(MaxDepth + 1)}

\* str.split(sep)
RECURSIVE Split(_, _)
Split(s, sep) ==
  IF \A i \in 1..Len(s) : s[i] # sep THEN <<s>>
  ELSE LET i == CHOOSE k \in 1..Len(s) :
                   s[k] = sep /\ \A j \in 1..(k - 1) : s[j] # sep
       IN <<SubSeq(s, 1, i - 1)>> \o Split(SubSeq(s, i + 1, Len(s)), sep)

\* the loop written with dict.get(k): a miss yields None, not the default
RECURSIVE GetWalk_none(_, _, _)
GetWalk_none(value, keys, default) ==
  IF keys = <<>> THEN value
  ELSE IF value.t = "dict" /\ Head(keys) \in DOMAIN value.m
       THEN GetWalk_none(value.m[Head(keys)], Tail(keys), default)
       ELSE CfgNone

\* the loop of ConfigManager.get over the remaining keys
RECURSIVE GetWalk(_, _, _)
GetWalk(value, keys, default) ==
  IF keys = <<>> THEN value
  ELSE IF value.t = "dict" /\ Head(keys) \in DOMAIN value.m
       THEN GetWalk(value.m[Head(keys)], Tail(keys), default)
       ELSE default

\* ConfigManager.get(key, default)
get(cfg, key, default) == GetWalk(cfg, Split(key, "."), default)

\* a caller asks for a configuration value
ConfigGet(key, default) ==
  /\ cfg_call' = [key |-> key, default |-> default]
  /\ cfg_result' = get(config, key, default)
  /\ config' = config /\ config_file' = config_file
  /\ lastOp' = "get"
  /\ raised' = FALSE /\ logged' = <<>>
  /\ UNCHANGED <<hostVars, emVars, mpVars, cmVars, animVars, toolVars>>

\* the loops of ConfigManager.set over the remaining keys: [ok, v], v the
\* mapping afterwards; ok = FALSE stands for the TypeError that `k not in
\* config`, `config[k]` or the item assignment raises when config is a
\* string or None
RECURSIVE SetWalk(_, _, _)
SetWalk(cfg, keys, value) ==
  IF cfg.t # "dict" THEN [ok |-> FALSE, v |-> cfg]
  ELSE LET k == Head(keys)
           With(x) == CfgDict([j \in DOMAIN cfg.m \cup {k} |-> IF j = k THEN x ELSE cfg.m[j]])
       IN IF Len(keys) = 1 THEN [ok |-> TRUE, v |-> With(value)]
          ELSE LET child == IF k \in DOMAIN cfg.m THEN cfg.m[k]
                            ELSE CfgDict([j \in {} |-> CfgNone])
                   r == SetWalk(child, Tail(keys), value)
               IN IF r.ok THEN [ok |-> TRUE, v |-> With(r.v)]
                  ELSE [ok |-> FALSE, v |-> IF k \in DOMAIN cfg.m THEN cfg ELSE With(child)]

\* ConfigManager.set(key, value)
set(cfg, key, value) == SetWalk(cfg, Split(key, "."), value)

\* a caller sets a configuration value
ConfigSet(key, value) ==
  /\ config \in Configs
  /\ LET r == set(config, key, value)
     IN config' = r.v /\ raised' = ~r.ok
  /\ cfg_call' = [key |-> key, value |-> value]
  /\ cfg_result' = CfgNone
  /\ config_file' = config_file
  /\ lastOp' = "set"
  /\ logged' = <<>>
  /\ UNCHANGED <<hostVars, emVars, mpVars, cmVars, animVars, toolVars>>

\* "".join with "." of a list of segments
RECURSIVE JoinDots(_)
JoinDots(segs) ==
  IF Len(segs) = 1 THEN segs[1]
  ELSE segs[1] \o <<".">> \o JoinDots(Tail(segs))

RECURSIVE SeqsUpTo(_, _)
SeqsUpTo(S, n) ==
  IF n = 0 THEN {<<>>}
  ELSE SeqsUpTo(S, n - 1) \cup
       {Append(q, x) : q \in {r \in SeqsUpTo(S, n - 1) : Len(r) = n - 1}, x \in S}

\* segment lists of the keys a caller passes: up to MaxSegs segments that
\* are a key or an unknown name, and the lists with an empty segment that
\* "", "a." and ".a" split into
CfgSegments ==
  (SeqsUpTo({<<"a">>, <<"b">>}, MaxSegs) \ {<<>>})
    \cup {<< <<>> >>, << <<"a">>, <<>> >>, << <<>>, <<"a">> >>}

\* the dotted keys a caller passes
CfgKeyTexts == {JoinDots(segs) : segs \in CfgSegments}

CfgDefaults == {CfgNone, [t |-> "str", v |-> "dflt"]}

CfgInit(c) == config = c /\ cfg_call = [key |-> <<>>, default |-> CfgNone]
              /\ cfg_result = CfgNone /\ config_file = c

\* ========================================================= Anim Exporter
\* AnimExporterDialog.load_data_from_note: anim00, anim01, ... are read
\* until the first index that has no property
RECURSIVE NotePrefix(_, _)
NotePrefix(props, i) == IF i \in DOMAIN props THEN NotePrefix(props, i + 1) ELSE i

\* a property whose Data is ""
EmptyProp == [set |-> FALSE]

\* the rows load_data_from_note adds for the properties from index i on; a
\* property with empty Data adds none
RECURSIVE LoadRows(_, _)
LoadRows(props, i) ==
  IF i \notin DOMAIN props THEN <<>>
  ELSE (IF props[i].set
        THEN <<[name |-> props[i].name, start |-> IntToStr(props[i].start_frame),
                end |-> IntToStr(props[i].end_frame)]>>
        ELSE <<>>) \o LoadRows(props, i + 1)

load_data_from_note(props) == LoadRows(props, 0)

\* int(item.text()) of both frame cells of a row succeeds
RowParses(row) == ParseInt(row.start).ok /\ ParseInt(row.end).ok

\* the anim_data dictionary built from the cells of a row
RowData(row) ==
  [set |-> TRUE, name |-> row.name, start_frame |-> ParseInt(row.start).v,
   end_frame |-> ParseInt(row.end).v]

\* rows save_data_to_note writes before int() raises: all of them when
\* every row parses
RECURSIVE RowsWritten(_, _)
RowsWritten(table, r) ==
  IF r > Len(table) \/ ~RowParses(table[r]) THEN r - 1 ELSE RowsWritten(table, r + 1)


\* AnimExporterDialog.save_data_to_note: anim00.. are overwritten from the
\* rows, then the properties that follow the last row are emptied; a
\* ValueError of int() ends it where it is raised
save_data_to_note(props, table) ==
  LET k == RowsWritten(table, 1)
      written == [i \in DOMAIN props \cup 0..(k - 1) |->
                    IF i < k THEN RowData(table[i + 1]) ELSE props[i]]
  IN IF k < Len(table) THEN written
     ELSE [i \in DOMAIN written |->
             IF i >= k /\ i < NotePrefix(written, k) THEN EmptyProp ELSE written[i]]

\* the table without the rows of the set rows
RemoveRows(table, rows) ==
  LET keep == {r \in 1..Len(table) : r \notin rows}
      RECURSIVE Kept(_)
      Kept(r) == IF r > Len(table) THEN <<>>
                 ELSE (IF r \in keep THEN <<table[r]>> ELSE <<>>) \o Kept(r + 1)
  IN Kept(1)

\* everything the table handlers leave alone
TableFrame ==
  /\ raised' = FALSE
  /\ UNCHANGED <<hostVars, emVars, mpVars, cmVars, cfgVars, toolVars, ad_state, name_input,
                 start_frame_input, end_frame_input, animation_data, ad_msg>>

\* the user edits a cell of the table: itemChanged runs on_table_data_changed
on_table_data_changed(row, column, text) ==
  /\ ad_state # "open"
  /\ row \in 1..Len(animation_table)
  /\ column \in {"name", "start", "end"}
  /\ LET new_row == [animation_table[row] EXCEPT ![column] = text]
     IN /\ animation_table' = [animation_table EXCEPT ![row] = new_row]
        /\ note_props' = IF RowParses(new_row)
                         THEN create_animation_property(note_props, row - 1, RowData(new_row))
                         ELSE note_props
  /\ logged' = <<>>
  /\ lastOp' = "on_table_data_changed"
  /\ TableFrame

\* on_delete_selected with the rows selected_rows; reply: the answer to
\* "Confirm Delete"
on_delete_selected(selected_rows, reply) ==
  /\ ad_state # "open"
  /\ selected_rows \subseteq 1..Len(animation_table)
  /\ IF selected_rows = {} \/ reply # "Yes"
     THEN UNCHANGED <<animation_table, note_props>> /\ logged' = <<>>
     ELSE LET table == RemoveRows(animation_table, selected_rows)
          IN /\ animation_table' = table
             /\ note_props' = save_data_to_note(note_props, table)
             /\ logged' = IF RowsWritten(table, 1) < Len(table)
                          THEN <<"Failed to save data to note">> ELSE <<>>
  /\ lastOp' = "on_delete_selected"
  /\ TableFrame

\* on_delete_all; reply: the answer to "Confirm Delete All"
on_delete_all(reply) ==
  /\ ad_state # "open"
  /\ IF animation_table = <<>> \/ reply # "Yes"
     THEN UNCHANGED <<animation_table, note_props>>
     ELSE /\ animation_table' = <<>>
          /\ note_props' = save_data_to_note(note_props, <<>>)
  /\ logged' = <<>>
  /\ lastOp' = "on_delete_all"
  /\ TableFrame

\* execute(control, event) of anim_exporter
ae_execute ==
  /\ lastOp' = "ae.execute"
  /\ raised' = FALSE /\ logged' = <<>>
  /\ windows' = WindowsAfterExecute("anim", ae_dialog)
  /\ IF ~execute_creates(ae_dialog)
     THEN UNCHANGED <<ae_dialog, animVars>>
     ELSE /\ ae_dialog' = "open"
          /\ animation_table' = load_data_from_note(note_props)
          /\ ad_state' = "none" /\ animation_data' = NoData /\ ad_msg' = ""
          /\ UNCHANGED <<name_input, start_frame_input, end_frame_input, note_props>>
  /\ UNCHANGED <<hostVars, emVars, mpVars, cmVars, cfgVars, stVars, menuVars, extVars>>

\* AnimExporterDialog.closeEvent
ae_closeEvent ==
  /\ ae_dialog = "open"
  /\ ae_dialog' = "closed"
  /\ windows' = WindowsAfterClose("anim")
  /\ lastOp' = "ae.closeEvent"
  /\ raised' = FALSE /\ logged' = <<>>
  /\ UNCHANGED <<hostVars, emVars, mpVars, cmVars, animVars, cfgVars, stVars, menuVars, extVars>>

\* ============================================================== Settings
\* execute(control, event) of settings_qt; ui_ok: settings.ui exists. The
\* configuration names no server and no user, so load_settings queries
\* no workspaces
st_execute(ui_ok) ==
  /\ lastOp' = "st.execute"
  /\ raised' = FALSE /\ logged' = <<>>
  /\ windows' = WindowsAfterExecute("settings", st_dialog)
  /\ IF ~execute_creates(st_dialog)
     THEN UNCHANGED stVars
     ELSE /\ st_dialog' = "open"
          /\ st_ui_ok' = ui_ok
          /\ st_msg' = IF ui_ok THEN NoMsg ELSE [title |-> "Error", items |-> <<>>]
          /\ st_status' = ""
          /\ p4WorkspaceList' = <<>>
  /\ UNCHANGED <<hostVars, emVars, mpVars, cmVars, animVars, cfgVars, ae_dialog, menuVars, extVars>>

\* SettingsDialog.closeEvent
st_closeEvent ==
  /\ st_dialog = "open"
  /\ st_dialog' = "closed"
  /\ windows' = WindowsAfterClose("settings")
  /\ st_msg' = NoMsg
  /\ lastOp' = "st.closeEvent"
  /\ raised' = FALSE /\ logged' = <<>>
  /\ UNCHANGED <<hostVars, emVars, mpVars, cmVars, animVars, cfgVars, ae_dialog, st_status,
                 st_ui_ok, p4WorkspaceList, menuVars, extVars>>

\* what `subprocess.run(['p4', ...], timeout=10)` does
P4Outcomes == {"clients", "no_clients", "nonzero_exit", "FileNotFoundError",
               "TimeoutExpired", "Exception"}

\* SettingsDialog.load_workspaces: [items, status, msg, logged] for one
\* outcome of the p4 query
P4Result(outcome) ==
  CASE outcome = "clients" ->
         [items |-> <<"ws_main">>, status |-> "Found 1 workspace(s)", msg |-> NoMsg,
          logged |-> <<>>]
    [] outcome = "no_clients" ->
         [items |-> <<"(No workspaces found)">>, status |-> "No workspaces found",
          msg |-> NoMsg, logged |-> <<>>]
    [] outcome = "nonzero_exit" ->
         [items |-> <<"(Error loading workspaces)">>, status |-> "Error", msg |-> NoMsg,
          logged |-> <<"P4 query failed">>]
    [] outcome = "FileNotFoundError" ->
         [items |-> <<"(P4 command not found)">>, status |-> "P4 CLI not installed",
          msg |-> [title |-> "P4 Not Found", items |-> <<>>], logged |-> <<>>]
    [] outcome = "TimeoutExpired" ->
         [items |-> <<"(Connection timeout)">>, status |-> "Connection timeout",
          msg |-> NoMsg, logged |-> <<>>]
    [] OTHER ->
         [items |-> <<"(Error loading workspaces)">>, status |-> "Error", msg |-> NoMsg,
          logged |-> <<"Failed to load workspaces">>]

\* SettingsDialog.load_workspaces, run by on_p4_credentials_changed;
\* filled: the server and the user field both hold text
load_workspaces(filled, outcome) ==
  /\ st_dialog = "open" /\ st_ui_ok
  /\ IF ~filled
     THEN /\ UNCHANGED <<p4WorkspaceList, st_status>>
          /\ st_msg' = NoMsg /\ logged' = <<>>
     ELSE LET r == P4Result(outcome)
          IN /\ p4WorkspaceList' = r.items
             /\ st_status' = r.status
             /\ st_msg' = r.msg
             /\ logged' = r.logged
  /\ lastOp' = "load_workspaces"
  /\ raised' = FALSE
  /\ UNCHANGED <<hostVars, emVars, mpVars, cmVars, animVars, cfgVars, windows, ae_dialog,
                 st_dialog, st_ui_ok, menuVars, extVars>>

\* a text value of the configuration
CfgText(text) == [t |-> "str", v |-> text]

\* the perforce and export sections of a configuration
SettingsConfig(server, user, workspace, fbx_path) ==
  CfgDict([k \in {"perforce", "export"} |->
    IF k = "perforce"
    THEN CfgDict([j \in {"server", "user", "workspace"} |->
           CfgText(CASE j = "server" -> server [] j = "user" -> user [] OTHER -> workspace)])
    ELSE CfgDict([j \in {"fbx_path"} |-> CfgText(fbx_path)])])

\* the item of p4WorkspaceList.currentItem(): none, or an item with a text
NoItem == [has |-> FALSE, text |-> <<>>]
Item(text) == [has |-> TRUE, text |-> text]

\* workspace.startswith("(")
StartsWithParen(text) == text # <<>> /\ Head(text) = "("

\* the workspace on_save_settings stores for the current item
SavedWorkspace(current_item) ==
  LET workspace == IF current_item.has THEN current_item.text ELSE <<>>
  IN IF StartsWithParen(workspace) THEN <<>> ELSE workspace

\* the path check of on_save_settings ends the handler: the directory is
\* missing and the user declines, or mkdir raises
SaveAborted(fbx_path, exists, reply, mkdir_ok) ==
  fbx_path # <<>> /\ ~exists /\ (reply # "Yes" \/ ~mkdir_ok)

\* the configuration in memory after on_save_settings: the three perforce
\* values are set before the path is checked, export.fbx_path after it
SettingsSaved(cfg, server, user, current_item, fbx_path, aborted) ==
  LET p == SetWalk(SetWalk(SetWalk(cfg, <<"perforce", "server">>, CfgText(server)).v,
                           <<"perforce", "user">>, CfgText(user)).v,
                   <<"perforce", "workspace">>, CfgText(SavedWorkspace(current_item))).v
  IN IF aborted THEN p
     ELSE SetWalk(p, <<"export", "fbx_path">>, CfgText(fbx_path)).v

\* SettingsDialog.on_save_settings; the arguments are the texts of the
\* form, the current workspace item, whether the FBX directory exists, the
\* answer to "Path Not Found" and whether mkdir succeeds
on_save_settings(server, user, current_item, fbx_path, exists, reply, mkdir_ok) ==
  /\ st_dialog = "open" /\ st_ui_ok
  /\ LET aborted == SaveAborted(fbx_path, exists, reply, mkdir_ok)
     IN /\ config' = SettingsSaved(config, server, user, current_item, fbx_path, aborted)
        /\ config_file' = IF aborted THEN config_file ELSE config'
        /\ st_msg' = [title |-> IF ~aborted THEN "Success"
                                ELSE IF reply = "Yes" THEN "Error" ELSE "Path Not Found",
                      items |-> <<>>]
  /\ lastOp' = "on_save_settings"
  /\ raised' = FALSE /\ logged' = <<>>
  /\ UNCHANGED <<hostVars, emVars, mpVars, cmVars, animVars, cfg_call, cfg_result, windows,
                 ae_dialog, st_dialog, st_status, st_ui_ok, p4WorkspaceList, menuVars, extVars>>

\* ================================================================== menu
\* the enabled categories of the default configuration
MenuCategories == {"Animation", "Rigging", "Unreal Engine", "Debug"}

\* category_callbacks of a category: the TOOL_NAME of every tool module of
\* its folder, or the placeholder item when the folder holds none
CategoryCallbacks(category) ==
  CASE category = "Animation" -> {"Anim Exporter"}
    [] category = "Rigging" -> {"Constraint Manager", "Character Mapper"}
    [] category = "Debug" -> {"Random Objects Generator"}
    [] OTHER -> {"No Unreal Engine tools found"}

\* utility_callbacks of the main menu
UtilityCallbacks ==
  {"Settings...", "Settings (Qt)...", "Constraint Manager (Qt)...", "Reload xMobu",
   "About xMobu"}

\* event.Name of the menu events the host sends: every item of the menus,
\* the separator and the category items, which have no callback
MenuEventNames ==
  UtilityCallbacks \cup MenuCategories \cup {""}
  \cup UNION {CategoryCallbacks(c) : c \in MenuCategories}

\* what the callback of a menu item does when it is called
CallbackOutcomes == {"returns", "Exception"}

\* a dispatch that calls the callback outside any try block
Dispatch_no_try(callbacks, name, outcome) ==
  IF name \in callbacks
  THEN [called |-> <<name>>, reported |-> FALSE, raised |-> outcome = "Exception"]
  ELSE [called |-> <<>>, reported |-> FALSE, raised |-> FALSE]

\* the body shared by menu_handler and utility_handler:
\* `callback = callbacks.get(event.Name)`, `if callback: try: callback(...)
\* except Exception: print(...); traceback.print_exc()`
Dispatch(callbacks, name, outcome) ==
  IF name \in callbacks
  THEN [called |-> <<name>>, reported |-> outcome = "Exception", raised |-> FALSE]
  ELSE [called |-> <<>>, reported |-> FALSE, raised |-> FALSE]

\* the host activates an item: the handler of one menu runs
MenuActivate(op, callbacks, name, outcome) ==
  /\ LET d == Dispatch(callbacks, name, outcome)
     IN /\ menu_called' = d.called
        /\ menu_reported' = d.reported
        /\ raised' = d.raised
  /\ logged' = <<>>
  /\ lastOp' = op
  /\ UNCHANGED <<hostVars, emVars, mpVars, cmVars, animVars, cfgVars, windows, ae_dialog,
                 stVars, extVars>>

\* MenuBuilder._build_category_menu.menu_handler of one category
menu_handler(category, name, outcome) ==
  MenuActivate("menu_handler", CategoryCallbacks(category), name, outcome)

\* MenuBuilder._add_utility_items.utility_handler
utility_handler(name, outcome) ==
  MenuActivate("utility_handler", UtilityCallbacks, name, outcome)

\* ============================================================= utilities
\* a caller runs get_all_models(include_children) on the current scene
GetAllModelsCall(include_children) ==
  /\ gm_call' = [include_children |-> include_children,
                 result |-> get_all_models(Components, include_children)]
  /\ lastOp' = "get_all_models"
  /\ raised' = FALSE /\ logged' = <<>>
  /\ UNCHANGED <<hostVars, emVars, mpVars, cmVars, animVars, cfgVars, windows, ae_dialog,
                 stVars, menuVars, smVars, ccVars>>

\* a process in which no tool has run yet, with the scene comps
StartInit(comps) ==
  /\ HostInit(comps) /\ EmInit /\ MpInit /\ CmInit /\ AnimInit /\ ToolInit
  /\ CfgInit(CfgDict(<<>>))

\* ================================================= refresh_list_widget
\* longest selection list handed to refresh_list_widget
MaxSel == 3

\* a caller runs refresh_list_widget(parent, name, all_models, selected_objects)
RefreshCall(found, fault) ==
  /\ LET r == refresh_list_widget(found, fault, objectsList, all_models, selected_objects)
     IN /\ objectsList' = r.items
        /\ selected_objects' = r.sel
        /\ ret' = r.ok
  /\ prev_selected' = selected_objects
  /\ lastOp' = "refresh_list_widget"
  /\ raised' = FALSE /\ logged' = <<>>
  /\ UNCHANGED <<hostVars, emVars, cmVars, auxVars, mp_dialog, mp_is_closing, mp_ui_ok,
                 all_models, searchEdit, mpSlotVars>>

\* every snapshot / selection pair: the snapshot is any list of distinct
\* objects, the selection any list (repetitions included) of up to MaxSel
InitRefresh ==
  /\ HostInit(<<>>)
  /\ all_models \in SeqsNoDup(Objects)
  /\ selected_objects \in SeqsUpTo(Objects, MaxSel)
  /\ EmInit /\ CmInit /\ AnimInit /\ ToolInit /\ CfgInit(CfgDict(<<>>))
  /\ mp_dialog = "none" /\ mp_is_closing = FALSE /\ mp_ui_ok = FALSE
  /\ objectsList = <<>> /\ searchEdit = <<>> /\ bone_mappings = <<>>
  /\ presetNameEdit = "" /\ presetFiles = [n \in PresetTexts |-> NoFile]
  /\ mp_msg = NoMsg /\ hostCalls = <<>> /\ rt = NoRT
  /\ ret = "none" /\ prev_selected = <<>>

NextRefresh == \E found \in BOOLEAN : RefreshCall(found, NoFault)

SpecRefresh == InitRefresh /\ [][NextRefresh]_vars

\* C1: after refresh_list_widget returned True, the selection holds no
\* reference that is absent from the snapshot, and it is the previous
\* selection restricted to the snapshot, in the previous order
C1_SelectionPruned ==
  (lastOp = "refresh_list_widget" /\ ret = "True") =>
    /\ \A i \in 1..Len(selected_objects) : selected_objects[i] \in Range(all_models)
    /\ selected_objects = SelectSeq(prev_selected, LAMBDA o : o \in Range(all_models))

\* C1 witness: a refresh that dropped some references and kept two or more
C1_Witness ==
  /\ lastOp = "refresh_list_widget" /\ ret = "True"
  /\ Len(selected_objects) >= 2
  /\ Len(selected_objects) < Len(prev_selected)

\* ------------------------------- refresh_list_widget: the failing calls
\* the snapshots update_scene_objects hands over (cameras left out, sorted
\* by Name) with a selection of up to two distinct references
InitOutcome ==
  /\ HostInit(<<>>)
  /\ all_models \in {SortByName(SelectSeq(get_all_models(c, TRUE), LAMBDA m : ~IsCamera(m))) :
                       c \in Scenes}
  /\ selected_objects \in {q \in SeqsNoDup(Objects) : Len(q) <= 2}
  /\ EmInit /\ CmInit /\ AnimInit /\ ToolInit /\ CfgInit(CfgDict(<<>>))
  /\ mp_dialog = "none" /\ mp_is_closing = FALSE /\ mp_ui_ok = FALSE
  /\ objectsList = <<>> /\ searchEdit = <<>> /\ bone_mappings = <<>>
  /\ presetNameEdit = "" /\ presetFiles = [n \in PresetTexts |-> NoFile]
  /\ mp_msg = NoMsg /\ hostCalls = <<>> /\ rt = NoRT
  /\ ret = "none" /\ prev_selected = <<>>

NextOutcome ==
  \E found \in BOOLEAN, fault \in Faults(all_models) : RefreshCall(found, fault)

SpecOutcome == InitOutcome /\ [][NextOutcome]_vars

\* C17 as stated: refresh_list_widget answers False only when the list
\* widget was not found and then changes neither the widget nor the
\* selection; in every other call it answers True, the widget shows the
\* snapshot's names in snapshot order and the selection is pruned
C17_AsStated ==
  [][\A found \in BOOLEAN, fault \in Faults(all_models) :
       RefreshCall(found, fault) =>
         IF found
         THEN /\ ret' = "True"
              /\ objectsList' = NamesOf(all_models)
              /\ selected_objects' =
                   SelectSeq(selected_objects, LAMBDA o : o \in Range(all_models))
         ELSE /\ ret' = "False"
              /\ UNCHANGED <<objectsList, selected_objects>>]_vars

\* C17: refresh_list_widget answers False exactly when the list widget was
\* not found, Qt could not be imported, or a call inside its try block
\* raised; a False call never changes the selection, leaves the widget as
\* it was when nothing was repainted (not found, no Qt, clear() raised) and
\* otherwise leaves a prefix of the snapshot's names; a True call shows the
\* snapshot's names in snapshot order and prunes the selection
C17_RefreshOutcome ==
  [][\A found \in BOOLEAN, fault \in Faults(all_models) :
       RefreshCall(found, fault) =>
         /\ ret' = "False" <=> (~found \/ fault # NoFault)
         /\ ret' = "False" =>
              /\ selected_objects' = selected_objects
              /\ (~found \/ fault.at \in {"import", "clear"}) =>
                   objectsList' = objectsList
              /\ \/ objectsList' = objectsList
                 \/ \E n \in 0..Len(all_models) :
                      objectsList' = SubSeq(NamesOf(all_models), 1, n)
         /\ ret' = "True" =>
              /\ objectsList' = NamesOf(all_models)
              /\ selected_objects' =
                   SelectSeq(selected_objects, LAMBDA o : o \in Range(all_models))]_vars

\* C17 witness: a call that found the widget, answered False and left it
\* showing only the first names of a longer snapshot, selection unpruned
C17_Witness ==
  /\ lastOp = "refresh_list_widget" /\ ret = "False"
  /\ Len(objectsList) >= 1 /\ Len(objectsList) < Len(all_models)
  /\ \E i \in 1..Len(selected_objects) : selected_objects[i] \notin Range(all_models)

\* ================================================ Character Mapper: filter
InitFilter == StartInit(<<>>)

NextFilter ==
  \/ \E ui_ok \in BOOLEAN : mp_execute(ui_ok)
  \/ \E text \in SearchTexts : on_search_changed(text)
  \/ on_refresh_clicked
  \/ \E o \in Objects, type \in SentTypes : HostAddObject(o, type)
  \/ \E o \in Objects, type \in SentTypes : HostRemoveObject(o, type)
  \/ \E kind \in {"new", "open", "merge", "save"}, comps \in Scenes :
        HostFileEvent(kind, comps)

SpecFilter == InitFilter /\ [][NextFilter]_vars

\* name and text agree at offset i letter by letter, case ignored
MatchesAt(name, text, i) ==
  /\ i + Len(text) <= Len(name)
  /\ \A j \in 1..Len(text) : LowerChar(name[i + j]) = LowerChar(text[j])

\* C5: after apply_filter the objects list holds exactly the names of the
\* snapshot objects whose name contains the search text, case ignored, in
\* snapshot order; an empty search text shows the whole snapshot
C5_FilterCorrect ==
  lastOp = "on_search_changed" =>
    objectsList = NamesOf(SelectSeq(all_models,
       LAMBDA m : \E i \in 0..Len(NameOf(m)) : MatchesAt(NameOf(m), searchEdit, i)))

\* C5 witness: a search text with an upper-case letter that keeps some
\* objects of the snapshot and hides others
C5_Witness ==
  /\ lastOp = "on_search_changed"
  /\ \E i \in 1..Len(searchEdit) : LowerChar(searchEdit[i]) # searchEdit[i]
  /\ Len(objectsList) >= 2
  /\ Len(objectsList) < Len(all_models)

\* ============================================== Character Mapper: presets
\* the slots the drops of this specification fill (Hips, Spine)
PresetSlots == {i \in 1..Len(CHARACTER_SLOTS) : CHARACTER_SLOTS[i] \in {"Hips", "Spine"}}

InitPreset == StartInit(SceneOf(Objects))

NextPreset ==
  \/ mp_execute(TRUE)
  \/ \E i \in 1..NumObjects : on_object_list_item_clicked(i, FALSE)
  \/ on_list_children_clicked
  \/ \E slot_index \in PresetSlots, i \in 1..NumObjects : on_bone_dropped(slot_index, i)
  \/ on_clear_mapping_clicked
  \/ \E io_ok \in BOOLEAN : on_save_preset(io_ok)
  \/ on_load_preset
  \/ \E text \in {"", "Hero"} : EditPresetName(text)

SpecPreset == InitPreset /\ [][NextPreset]_vars

\* a save, a clear and a load in a row, the load reading the preset name
\* the save wrote, against the snapshot the save saw
RoundTripDone ==
  /\ lastOp = "on_load_preset" /\ rt.phase = "loaded"
  /\ LoadPresetName(presetNameEdit) = rt.name
  /\ all_models = rt.snap

\* C2: after save, clear and load of the same preset name against the same
\* snapshot, every slot that was unmapped is None, and every slot that was
\* mapped holds the object it held before the save or, when the saved name
\* does not resolve, None; a slot whose object is in the snapshot is restored
C2_RoundTrip ==
  RoundTripDone =>
    \A slot \in SlotNames :
      /\ rt.map[slot] = None => bone_mappings[slot] = None
      /\ bone_mappings[slot] \in {rt.map[slot], None}
      /\ rt.map[slot] \in Range(all_models) => bone_mappings[slot] = rt.map[slot]

\* C2: a round trip that restored a mapped slot
C2_Witness ==
  /\ RoundTripDone
  /\ \E slot \in SlotNames : rt.map[slot] # None /\ bone_mappings[slot] = rt.map[slot]

\* ========================================= Character Mapper: characterize
\* the slots the drops of this specification fill: the four required ones,
\* the arms apply_tpose reads, and one optional slot
CharacterSlots ==
  {i \in 1..Len(CHARACTER_SLOTS) :
     CHARACTER_SLOTS[i] \in {"Hips", "Spine", "LeftUpLeg", "RightUpLeg",
                             "LeftArm", "LeftForeArm", "Neck"}}

InitCharacter == StartInit(SceneOf(Objects))

NextCharacter ==
  \/ \E ui_ok \in BOOLEAN : mp_execute(ui_ok)
  \/ \E slot_index \in CharacterSlots : on_bone_dropped(slot_index, 1)
  \/ on_clear_mapping_clicked
  \/ \E apose \in BOOLEAN, reply \in {"Yes", "No", "Cancel"}, ik \in BOOLEAN,
        err \in ErrTexts :
        on_create_character(apose, reply, ik, err)

SpecCharacter == InitCharacter /\ [][NextCharacter]_vars

\* the required slots that hold no object
UnmappedRequired ==
  {slot \in {"Hips", "Spine", "LeftUpLeg", "RightUpLeg"} : bone_mappings[slot] = None}

\* C3: on_create_character with a required slot unmapped makes no host call
\* and warns with exactly the unmapped required slots, each once; with the
\* four mapped it does not show the missing-bones warning
C3_MissingRequired ==
  lastOp = "on_create_character" =>
    IF UnmappedRequired # {}
    THEN /\ hostCalls = <<>>
         /\ mp_msg.title = "Missing Required Bones"
         /\ Range(mp_msg.items) = UnmappedRequired
         /\ Len(mp_msg.items) = Cardinality(UnmappedRequired)
    ELSE mp_msg.title # "Missing Required Bones"

\* C3: an attempt with Hips mapped and exactly two required slots missing
C3_Witness ==
  /\ lastOp = "on_create_character"
  /\ bone_mappings["Hips"] # None
  /\ Cardinality(UnmappedRequired) = 2
  /\ mp_msg.title = "Missing Required Bones"

\* ================================================== Add Animation dialog
\* texts the user types into a frame field
FrameTexts == {<<>>, <<"x">>, <<"5">>, <<" ", "7", " ">>, <<"-", "3">>, <<"1", ".", "5">>}

\* texts the user types into the Animation Name field
NameTexts == {<<>>, <<" ">>, <<" ", "A", " ">>}

\* loop ranges of the player when the dialog opens
LoopRanges == {<<0, 10>>, <<5, 5>>}

InitAnim == StartInit(<<>>)

NextAnim ==
  \/ \E r \in LoopRanges : on_add_animation(r[1], r[2])
  \/ \E text \in NameTexts : EditAnimationField("name", text)
  \/ \E field \in {"start", "end"}, text \in FrameTexts : EditAnimationField(field, text)
  \/ on_accept
  \/ ad_reject

SpecAnim == InitAnim /\ [][NextAnim]_vars

\* on_accept left the dialog open and created nothing
AnimRejected ==
  /\ ad_state' = "open" /\ animation_data' = NoData
  /\ animation_table' = animation_table /\ note_props' = note_props

\* on_accept accepted the dialog with the frames start and end
AnimAccepted(start, end) ==
  /\ ad_state' = "accepted" /\ animation_data'.set
  /\ animation_data'.start_frame = start /\ animation_data'.end_frame = end

\* the frame fields hold two integers, the end after the start
FramesValid ==
  /\ ParseInt(start_frame_input).ok /\ ParseInt(end_frame_input).ok
  /\ ParseInt(end_frame_input).v > ParseInt(start_frame_input).v

\* C4 as stated: on_accept rejects when a frame field is no integer or the
\* end is not after the start, and accepts every other pair of integers
C4_AsStated ==
  [][lastOp' = "on_accept" =>
       IF FramesValid
       THEN AnimAccepted(ParseInt(start_frame_input).v, ParseInt(end_frame_input).v)
       ELSE AnimRejected]_vars

\* C4 amended: on_accept rejects when the Animation Name is blank, when a
\* frame field is no integer or when the end is not after the start, and
\* accepts every other input with the parsed frames
C4_FrameRange ==
  [][lastOp' = "on_accept" =>
       IF FramesValid /\ (\E i \in 1..Len(name_input) : name_input[i] # " ")
       THEN AnimAccepted(ParseInt(start_frame_input).v, ParseInt(end_frame_input).v)
       ELSE AnimRejected]_vars

\* C4: an accepted dialog whose frames were typed with blanks around them,
\* after a rejection for equal frames was corrected
C4_Witness ==
  /\ lastOp = "on_accept" /\ ad_state = "accepted"
  /\ animation_data.start_frame = 5 /\ animation_data.end_frame = 7
  /\ Len(animation_table) = MaxRows

\* ============================================================ ConfigManager
InitConfig ==
  /\ HostInit(<<>>) /\ EmInit /\ MpInit /\ CmInit /\ AnimInit /\ ToolInit
  /\ \E c \in Configs : CfgInit(c)

NextConfig == \E key \in CfgKeyTexts, default \in CfgDefaults : ConfigGet(key, default)

SpecConfig == InitConfig /\ [][NextConfig]_vars

\* the value at the end of a path of segments, found from the last segment
\* backwards: [ok |-> FALSE] when a segment is no key of a mapping
RECURSIVE PathValue(_, _)
PathValue(cfg, segs) ==
  IF segs = <<>> THEN [ok |-> TRUE, v |-> cfg]
  ELSE LET p == PathValue(cfg, SubSeq(segs, 1, Len(segs) - 1))
           k == segs[Len(segs)]
       IN IF p.ok /\ p.v.t = "dict" /\ k \in DOMAIN p.v.m
          THEN [ok |-> TRUE, v |-> p.v.m[k]]
          ELSE [ok |-> FALSE]

\* the segment lists whose dotted form is the key
SegmentsOf(key) == {segs \in CfgSegments : JoinDots(segs) = key}

\* C6: get(key, default) returns the value at the end of the dotted path
\* when every segment is a key of a mapping, the default otherwise, and
\* leaves the configuration as it was
C6_DottedGet ==
  [][lastOp' = "get" =>
       /\ config' = config
       /\ SegmentsOf(cfg_call'.key) # {}
       /\ \A segs \in SegmentsOf(cfg_call'.key) :
            cfg_result' = IF PathValue(config, segs).ok THEN PathValue(config, segs).v
                          ELSE cfg_call'.default]_vars

\* C6: a get through a value that is no mapping returned the default
C6_Witness ==
  /\ lastOp = "get"
  /\ cfg_call.key = <<"a", ".", "b">>
  /\ <<"a">> \in DOMAIN config.m /\ config.m[<<"a">>].t = "str"
  /\ cfg_call.default = [t |-> "str", v |-> "dflt"]
  /\ cfg_result = cfg_call.default

\* ======================================================= SceneEventManager
\* registrations one manager holds at a time
MaxRegs == 5

\* callbacks a tool hands to its manager
Handlers == {"h1", "h2"}

\* the `events` arguments callers pass; <<"all">> stands for None
EventLists == {<<"all">>, <<"new">>, <<"open", "merge">>, <<"save", "save">>,
               <<"new", "bogus">>}

\* `if events is None: events = ['new', 'open', 'merge', 'save']`
EventsOrDefault(events) ==
  IF events = <<"all">> THEN <<"new", "open", "merge", "save">> ELSE events

\* entries of the manager's bookkeeping lists
RegCount(reg) ==
  Len(reg["file_new"]) + Len(reg["file_open"]) + Len(reg["file_merge"])
    + Len(reg["file_save"]) + Len(reg["scene_change"])

\* what an operation of the manager "em" leaves alone
EmFrame ==
  /\ raised' = FALSE /\ logged' = <<>>
  /\ UNCHANGED <<Components, hostDedup, Selected, mpVars, cmVars, auxVars>>

\* a tool calls register_file_events(callback, events)
EmRegisterFile(cb, events) ==
  /\ RegCount(registered["em"]) + Len(EventsOrDefault(events)) <= MaxRegs
  /\ LET st == register_file_events(hostDedup,
                  [reg |-> registered["em"], chs |-> channels], cb,
                  EventsOrDefault(events))
     IN /\ registered' = [registered EXCEPT !["em"] = st.reg]
        /\ channels' = st.chs
  /\ removeCalls' = 0
  /\ lastOp' = "register_file_events"
  /\ EmFrame

\* a tool calls register_scene_changes(callback)
EmRegisterScene(cb) ==
  /\ RegCount(registered["em"]) < MaxRegs
  /\ LET st == register_scene_changes(hostDedup,
                  [reg |-> registered["em"], chs |-> channels], cb)
     IN /\ registered' = [registered EXCEPT !["em"] = st.reg]
        /\ channels' = st.chs
  /\ removeCalls' = 0
  /\ lastOp' = "register_scene_changes"
  /\ EmFrame

\* the manager's state and host channels after an unregister operation
EmApply(st, op) ==
  /\ registered' = [registered EXCEPT !["em"] = st.reg]
  /\ channels' = st.chs
  /\ removeCalls' = st.n
  /\ lastOp' = op
  /\ EmFrame

EmState == [reg |-> registered["em"], chs |-> channels, n |-> 0]

\* a tool calls unregister_file_events(callback); "" is None
EmUnregisterFile(cb) == EmApply(unregister_file_events(EmState, cb), "unregister_file_events")

\* a tool calls unregister_scene_changes(callback); "" is None
EmUnregisterScene(cb) ==
  EmApply(unregister_scene_changes(EmState, cb), "unregister_scene_changes")

\* a tool calls unregister_all()
EmUnregisterAll == EmApply(unregister_all(EmState), "unregister_all")

InitEvents ==
  /\ Components = <<>> /\ channels = [c \in ChannelNames |-> <<>>]
  /\ hostDedup \in BOOLEAN
  /\ Selected = {}
  /\ EmInit /\ MpInit /\ CmInit /\ AnimInit /\ ToolInit /\ CfgInit(CfgDict(<<>>))

NextEvents ==
  \/ \E cb \in Handlers, events \in EventLists : EmRegisterFile(cb, events)
  \/ \E cb \in Handlers : EmRegisterScene(cb)
  \/ \E cb \in Handlers \cup {""} : EmUnregisterFile(cb)
  \/ \E cb \in Handlers \cup {""} : EmUnregisterScene(cb)
  \/ EmUnregisterAll

SpecEvents == InitEvents /\ [][NextEvents]_vars

\* C7: after unregister_all no handler is attached to any host channel and
\* every bookkeeping list is empty; an unregister_all that follows another
\* one issues no host Remove call and changes nothing
C7_UnregisterAll ==
  [][lastOp' = "unregister_all" =>
       /\ \A ch \in ChannelNames : channels'[ch] = <<>>
       /\ \A cat \in Categories : registered'["em"][cat] = <<>>
       /\ lastOp = "unregister_all" =>
            removeCalls' = 0 /\ channels' = channels /\ registered' = registered]_vars

\* C7: an unregister_all that issued a host Remove call for each of
\* MaxRegs registrations and left every channel empty
C7_Witness ==
  /\ lastOp = "unregister_all"
  /\ removeCalls = MaxRegs
  /\ \A ch \in ChannelNames : channels[ch] = <<>>

\* ========================================================= closing a dialog
\* index of the Hips slot in CHARACTER_SLOTS
HipsIndex == CHOOSE i \in 1..Len(CHARACTER_SLOTS) : CHARACTER_SLOTS[i] = "Hips"

InitClose == StartInit(SceneOf(Objects))

NextClose ==
  \/ mp_execute(TRUE)
  \/ mp_closeEvent
  \/ cm_execute(TRUE)
  \/ cm_closeEvent
  \/ on_object_list_item_clicked(1, FALSE)
  \/ on_bone_dropped(HipsIndex, 1)
  \/ on_list_item_clicked(1, FALSE)
  \/ on_set_parent
  \/ \E type \in SentTypes : HostAddObject(1, type)
  \/ \E type \in SentTypes : HostRemoveObject(1, type)
  \/ HostFileEvent("new", <<>>)
  \/ HostFileEvent("open", SceneOf(Objects))
  \/ \E type \in SentTypes : LateSceneEvent(type)
  \/ LateFileEvent

SpecClose == InitClose /\ [][NextClose]_vars

\* neither handler of a dialog is attached to a host channel
Detached(file_cb, scene_cb) ==
  \A ch \in ChannelNames : ~InList(file_cb, channels'[ch]) /\ ~InList(scene_cb, channels'[ch])

\* C8: a step that leaves a dialog closed (closeEvent itself, and every
\* event delivered afterwards) leaves none of its handlers attached and
\* does not change its snapshot, its selection or its slot mapping
C8_ClosedDialogQuiet ==
  [][/\ mp_dialog' = "closed" =>
          /\ Detached("mp.on_file_event", "mp.on_scene_change")
          /\ UNCHANGED <<all_models, selected_objects, bone_mappings>>
     /\ cm_dialog' = "closed" =>
          /\ Detached("cm.on_file_event", "cm.on_scene_change")
          /\ UNCHANGED <<all_scene_objects, cmRoleVars>>]_vars

\* C8: a relevant scene event reached both dialogs after they were closed
\* with a selection and a mapping, and their snapshots still hold an
\* object the scene has lost
C8_Witness ==
  /\ lastOp = "LateSceneEvent"
  /\ mp_dialog = "closed" /\ cm_dialog = "closed"
  /\ selected_objects # <<>> /\ bone_mappings["Hips"] # None
  /\ constraint_parents # <<>>
  /\ \E o \in Range(all_models) \cap Range(all_scene_objects) : ~InList(o, Components)

\* ================================== Constraint Manager: scene mutations
InitCM == StartInit(SceneOf(Objects))

NextCM ==
  \/ cm_execute(TRUE)
  \/ \E i \in 1..NumObjects : on_list_item_clicked(i, FALSE)
  \/ on_clear_selection
  \/ on_set_parent
  \/ on_set_child
  \/ \E o \in Objects : HostAddObject(o, "AddChild")
  \/ \E o \in Objects : HostRemoveObject(o, "Destroy")
  \/ \E type \in SentTypes : HostSceneEvent(type)

SpecCM == InitCM /\ [][NextCM]_vars

\* C9: after on_scene_change handled a relevant event, selected_objects,
\* constraint_parents and constraint_children hold only objects of the
\* re-derived all_scene_objects
C9_NoStaleReference ==
  cm_refreshed =>
    \A o \in Range(cm_selected_objects) \cup Range(constraint_parents)
               \cup Range(constraint_children) :
       InList(o, all_scene_objects)

\* =================================== Character Mapper: scene mutations
InitStale == StartInit(SceneOf(Objects))

NextStale ==
  \/ mp_execute(TRUE)
  \/ \E slot_index \in PresetSlots, i \in 1..NumObjects : on_bone_dropped(slot_index, i)
  \/ on_clear_mapping_clicked
  \/ \E o \in Objects : HostAddObject(o, "AddChild")
  \/ \E o \in Objects : HostRemoveObject(o, "Destroy")
  \/ HostSceneEvent("Renamed")

SpecStale == InitStale /\ [][NextStale]_vars

\* C10: after on_scene_change handled a relevant event and re-derived
\* all_models, every mapped slot of bone_mappings refers to an object of
\* all_models
C10_NoStaleSlot ==
  (lastOp \in {"HostAddObject", "HostRemoveObject", "HostSceneEvent"} /\ ret = "True") =>
    \A slot \in SlotNames :
       bone_mappings[slot] = None \/ InList(bone_mappings[slot], all_models)

\* ================================================ file new / open / merge
\* the scenes the file operations of this specification bring
FileScenes == {<<>>, SceneOf({1, 2}), SceneOf(Objects)}

InitFileEvent == StartInit(SceneOf(Objects))

NextFileEvent ==
  \/ \E ui_ok \in BOOLEAN : mp_execute(ui_ok)
  \/ \E ui_ok \in BOOLEAN : cm_execute(ui_ok)
  \/ \E i \in 1..2, ctrl \in BOOLEAN : on_object_list_item_clicked(i, ctrl)
  \/ on_bone_dropped(HipsIndex, 1)
  \/ on_list_item_clicked(1, FALSE)
  \/ on_set_parent
  \/ on_set_child
  \/ \E kind \in {"new", "open", "merge", "save"}, comps \in FileScenes :
        HostFileEvent(kind, comps)

SpecFileEvent == InitFileEvent /\ [][NextFileEvent]_vars

\* the step is File > New, Open or Merge completing
FileLoadStep ==
  \E kind \in {"new", "open", "merge"}, comps \in FileScenes : HostFileEvent(kind, comps)

\* C11: when a file new / open / merge event reaches an open dialog, the
\* Character Mapper is left with an empty selected_objects and None in every
\* slot of bone_mappings, and the Constraint Manager with empty
\* selected_objects, constraint_parents and constraint_children
C11_ClearedOnFileEvent ==
  [][FileLoadStep =>
       /\ mp_dialog = "open" =>
            /\ selected_objects' = <<>>
            /\ \A slot \in DOMAIN bone_mappings' : bone_mappings'[slot] = None
            /\ mp_ui_ok => DOMAIN bone_mappings' = SlotNames
       /\ cm_dialog = "open" =>
            /\ cm_selected_objects' = <<>>
            /\ constraint_parents' = <<>>
            /\ constraint_children' = <<>>]_vars

\* C11: a file event reached both open dialogs, the Character Mapper held a
\* selection of two objects when it arrived, and the scene it brought is
\* listed in both dialogs
C11_Witness ==
  /\ lastOp = "HostFileEvent"
  /\ mp_dialog = "open" /\ cm_dialog = "open"
  /\ Len(prev_selected) = 2 /\ ret = "True"
  /\ selected_objects = <<>> /\ bone_mappings["Hips"] = None
  /\ cm_selected_objects = <<>> /\ constraint_parents = <<>>
  /\ all_models # <<>> /\ all_scene_objects # <<>>

\* ===================================== Character Mapper: the slot table
InitTable == StartInit(SceneOf(Objects))

NextTable ==
  \/ \E ui_ok \in BOOLEAN : mp_execute(ui_ok)
  \/ \E slot_index \in PresetSlots, i \in 1..2 : on_bone_dropped(slot_index, i)
  \/ on_clear_mapping_clicked
  \/ on_load_preset
  \/ \E picked \in BOOLEAN, f \in ImportFiles : on_import_preset(picked, f)
  \/ \E kind \in {"new", "open", "merge", "save"}, comps \in FileScenes :
        HostFileEvent(kind, comps)

SpecTable == InitTable /\ [][NextTable]_vars

\* the keys of bone_mappings are the CHARACTER_SLOTS names and every slot
\* holds None or one object
TableShape ==
  /\ DOMAIN bone_mappings = SlotNames
  /\ \A slot \in SlotNames : bone_mappings[slot] \in Objects \cup {None}

InitSelect == StartInit(SceneOf(Objects))

NextSelect ==
  \/ mp_execute(TRUE)
  \/ cm_execute(TRUE)
  \/ \E i \in 1..NumObjects, ctrl \in BOOLEAN : on_object_list_item_clicked(i, ctrl)
  \/ \E i \in 1..NumObjects, ctrl \in BOOLEAN : on_list_item_clicked(i, ctrl)

SpecSelect == InitSelect /\ [][NextSelect]_vars

\* what a click on the row of object o has to leave, from the selection sel
\* to the selection sel2
ClickedAsStated(o, ctrl, sel, sel2) ==
  /\ ~ctrl => /\ sel2 = <<o>>
              /\ \A p \in Range(sel) \ {o} : p \notin Selected'
  /\ ctrl => sel2 = IF InList(o, sel) THEN SelectSeq(sel, LAMBDA x : x # o)
                    ELSE Append(sel, o)
  /\ \A j, k \in 1..Len(sel2) : sel2[j] = sel2[k] => j = k
  /\ \A x \in Objects : x \in Selected' <=> InList(x, sel2)

\* C13: a click on row i of a list that shows the whole snapshot selects
\* the object of that row: alone without modifier, the Selected flag of the
\* objects selected before cleared; toggled with Ctrl, the other entries
\* and their order kept; afterwards the selection has no duplicate and
\* Selected is true for exactly the objects of the selection
C13_ClickSelects ==
  [][/\ \A i \in 1..NumObjects, ctrl \in BOOLEAN :
          on_object_list_item_clicked(i, ctrl) =>
            ClickedAsStated(all_models[i], ctrl, selected_objects, selected_objects')
     /\ \A i \in 1..NumObjects, ctrl \in BOOLEAN :
          on_list_item_clicked(i, ctrl) =>
            ClickedAsStated(all_scene_objects[i], ctrl, cm_selected_objects,
                            cm_selected_objects')]_vars

\* ======================================= Character Mapper: loading presets
InitLoad == StartInit(SceneOf(Objects))

NextLoad ==
  \/ mp_execute(TRUE)
  \/ on_object_list_item_clicked(3, FALSE)
  \/ on_list_children_clicked
  \/ on_refresh_clicked
  \/ \E slot_index \in PresetSlots : on_bone_dropped(slot_index, 1)
  \/ on_bone_dropped(HipsIndex, 3)
  \/ on_save_preset(TRUE)
  \/ on_load_preset
  \/ \E f \in {g \in ImportFiles : g.form = "ok"} : on_import_preset(TRUE, f)

SpecLoad == InitLoad /\ [][NextLoad]_vars

\* the object name resolves in the snapshot all_models
Resolves(name) ==
  \E o \in Range(all_models) : LongNameOf(o) = name \/ NameOf(o) = name

\* bone_mappings' is the table a load of the entries `mappings` leaves: a
\* known slot whose entry resolves holds an object of the snapshot with
\* that name, every other slot is None, and no key was added
LoadedFrom(mappings) ==
  /\ DOMAIN bone_mappings' = SlotNames
  /\ \A slot \in SlotNames :
       IF slot \in DOMAIN mappings /\ Resolves(mappings[slot])
       THEN /\ bone_mappings'[slot] \in Range(all_models)
            /\ \/ LongNameOf(bone_mappings'[slot]) = mappings[slot]
               \/ NameOf(bone_mappings'[slot]) = mappings[slot]
       ELSE bone_mappings'[slot] = None

\* C14: on_load_preset of a missing preset leaves bone_mappings unchanged;
\* on_load_preset and on_import_preset of a well-formed preset report
\* success and leave None in every slot but those whose entry names a known
\* slot and an object of the snapshot, which are all mapped
C14_LoadSkipsUnresolved ==
  [][/\ lastOp' = "on_load_preset" =>
          LET file == presetFiles[LoadPresetName(presetNameEdit)]
          IN IF ~file.exists
             THEN bone_mappings' = bone_mappings /\ mp_msg'.title = "Preset Not Found"
             ELSE file.form = "ok" =>
                    LoadedFrom(file.mappings) /\ mp_msg'.title = "Preset Loaded"
     /\ \A f \in ImportFiles :
          (on_import_preset(TRUE, f) /\ f.form = "ok") =>
             LoadedFrom(f.mappings) /\ mp_msg'.title = "Import Successful"]_vars

\* C14: a preset whose first entry does not resolve and whose second entry
\* does was loaded: Hips is None and Spine is mapped
C14_Witness ==
  /\ lastOp \in {"on_load_preset", "on_import_preset"}
  /\ mp_msg.title \in {"Preset Loaded", "Import Successful"}
  /\ presetFiles["Hero"].exists
  /\ presetFiles["Hero"].mappings = ("Hips" :> <<"x">>) @@ ("Spine" :> <<"b", "A">>)
  /\ presetNameEdit = "Hero"
  /\ bone_mappings["Hips"] = None /\ bone_mappings["Spine"] = 2

\* ============================== Character Mapper: characterization errors
\* the slots the drops of this specification fill: the required ones and
\* the arms the pose check reads
FailureSlots ==
  {i \in 1..Len(CHARACTER_SLOTS) :
     CHARACTER_SLOTS[i] \in {"Hips", "Spine", "LeftUpLeg", "RightUpLeg",
                             "LeftArm", "RightArm", "LeftForeArm"}}

InitFailure == StartInit(SceneOf(Objects))

NextFailure ==
  \/ mp_execute(TRUE)
  \/ \E slot_index \in FailureSlots : on_bone_dropped(slot_index, 1)
  \/ \E apose \in BOOLEAN, reply \in {"Yes", "No", "Cancel"}, ik \in BOOLEAN,
        err \in ErrTexts :
        on_create_character(apose, reply, ik, err)

SpecFailure == InitFailure /\ [][NextFailure]_vars

\* the host calls made after the i-th one
CallsAfter(calls, i) == SubSeq(calls, i + 1, Len(calls))

\* C15: when on_create_character reached GetCharacterizeError() and the
\* host returned a non-empty error, the handler shows the failure box with
\* the host's error text and nothing else, creates no control rig, and
\* issues no SetCharacterizeOn after the one the error was reported for
C15_AbortOnHostError ==
  [][\A apose \in BOOLEAN, reply \in {"Yes", "No", "Cancel"}, ik \in BOOLEAN,
        err \in ErrTexts \ {""} :
        (/\ on_create_character(apose, reply, ik, err)
         /\ InList("GetCharacterizeError", hostCalls')) =>
          /\ mp_msg' = [title |-> "Characterization Failed", items |-> <<err>>]
          /\ ~InList("CreateControlRig", hostCalls')
          /\ \E i \in 1..Len(hostCalls') :
               /\ hostCalls'[i] = "GetCharacterizeError"
               /\ hostCalls'[i - 1] = "SetCharacterizeOn"
               /\ \A k \in 1..Len(CallsAfter(hostCalls', i)) :
                    CallsAfter(hostCalls', i)[k] = "GetCharacterizeError"
          /\ Len(SelectSeq(hostCalls', LAMBDA c : c = "SetCharacterizeOn")) = 2
          /\ Len(SelectSeq(hostCalls', LAMBDA c : c = "FBCharacter")) = 1]_vars

\* C15: the host reported an error for a character whose arms had been put
\* into the T-pose, although the user had asked for a control rig
C15_Witness ==
  /\ lastOp = "on_create_character"
  /\ mp_msg.title = "Characterization Failed" /\ mp_msg.items = <<"Hips not found">>
  /\ InList("Rotation", hostCalls)
  /\ Len(SelectSeq(hostCalls, LAMBDA c : c = "Link")) = Cardinality(FailureSlots)

\* ==================================== scene events without a Type field
InitNoType == StartInit(SceneOf(Objects))

NextNoType ==
  \/ mp_execute(TRUE)
  \/ cm_execute(TRUE)
  \/ on_object_list_item_clicked(1, FALSE)
  \/ \E o \in {1, 4}, type \in {"Destroy", NoType} : HostAddObject(o, type)
  \/ \E o \in {1, 4}, type \in {"Destroy", NoType} : HostRemoveObject(o, type)
  \/ \E type \in {"Select", NoType} : HostSceneEvent(type)

SpecNoType == InitNoType /\ [][NextNoType]_vars

\* the host sends a scene change whose event object has no Type
NoTypeStep ==
  \/ \E o \in Objects : HostAddObject(o, NoType) \/ HostRemoveObject(o, NoType)
  \/ HostSceneEvent(NoType)

\* C16: a scene change without a Type reaching an open dialog raises nothing
\* and leaves the dialog with the snapshot and the list of the scene as it
\* is after the event
C16_RefreshWithoutType ==
  [][NoTypeStep =>
       /\ ~raised'
       /\ mp_dialog = "open" =>
            /\ Range(all_models') = {o \in Range(Components') : IsModel(o) /\ ~IsCamera(o)}
            /\ objectsList' = NamesOf(all_models')
       /\ cm_dialog = "open" =>
            /\ Range(all_scene_objects') = {o \in Range(Components') : IsModel(o)}
            /\ selectionList' = NamesOf(all_scene_objects')]_vars

\* ================================================== menu dispatch (C18)
InitMenu == StartInit(SceneOf({1, 2}))

NextMenu ==
  \/ \E category \in MenuCategories, name \in MenuEventNames, outcome \in CallbackOutcomes :
       menu_handler(category, name, outcome)
  \/ \E name \in MenuEventNames, outcome \in CallbackOutcomes :
       utility_handler(name, outcome)
  \/ ae_execute
  \/ ae_closeEvent
  \/ \E ui_ok \in BOOLEAN : st_execute(ui_ok)
  \/ st_closeEvent

SpecMenu == InitMenu /\ [][NextMenu]_vars

\* what a dispatch over the callbacks must do with the event name
DispatchedSafely(callbacks, name, outcome) ==
  /\ ~raised'
  /\ (name \in callbacks /\ outcome = "Exception") => menu_reported'
  /\ name \notin callbacks => menu_called' = <<>>
  /\ name \in callbacks => menu_called' = <<name>>

\* C18: whatever the callback of a menu item does, menu_handler and
\* utility_handler let no exception reach the host and report the failure;
\* an event name without a registered callback calls nothing
C18_MenuDispatch ==
  [][/\ \A category \in MenuCategories, name \in MenuEventNames,
          outcome \in CallbackOutcomes :
          menu_handler(category, name, outcome) =>
            DispatchedSafely(CategoryCallbacks(category), name, outcome)
     /\ \A name \in MenuEventNames, outcome \in CallbackOutcomes :
          utility_handler(name, outcome) =>
            DispatchedSafely(UtilityCallbacks, name, outcome)]_vars

\* C18 witness: a utility callback was called, failed, and the failure was
\* reported without reaching the host
C18_Witness ==
  /\ lastOp = "utility_handler" /\ menu_called = <<"Settings (Qt)...">>
  /\ menu_reported /\ ~raised

\* ================================================= one window per tool (C19)
InitWindows == StartInit(SceneOf({1, 2}))

NextWindows ==
  \/ \E ui_ok \in BOOLEAN : mp_execute(ui_ok)
  \/ mp_closeEvent
  \/ \E ui_ok \in BOOLEAN : cm_execute(ui_ok)
  \/ cm_closeEvent
  \/ ae_execute
  \/ ae_closeEvent
  \/ \E ui_ok \in BOOLEAN : st_execute(ui_ok)
  \/ st_closeEvent

SpecWindows == InitWindows /\ [][NextWindows]_vars

\* the module-level dialog reference of a tool
DialogRef(t) ==
  CASE t = "mapper" -> mp_dialog
    [] t = "cm" -> cm_dialog
    [] t = "anim" -> ae_dialog
    [] OTHER -> st_dialog

\* C19: every tool has at most one dialog alive, and exactly one when its
\* module-level reference is not None; a close leaves the reference None
\* and none alive
C19_OneWindow ==
  \A t \in Tools :
    /\ windows[t] <= 1
    /\ windows[t] = 1 <=> DialogRef(t) = "open"

\* C19 witness: the four tools are open at once, one dialog each, after an
\* execute of Settings
C19_Witness ==
  /\ \A t \in Tools : windows[t] = 1 /\ DialogRef(t) = "open"
  /\ lastOp = "st.execute"

\* ================================================== failure paths (C20)
InitFailurePaths == StartInit(SceneOf({1, 2}))

NextFailurePaths ==
  \/ \E ui_ok \in BOOLEAN : st_execute(ui_ok)
  \/ \E filled \in BOOLEAN, outcome \in P4Outcomes : load_workspaces(filled, outcome)
  \/ st_closeEvent
  \/ mp_execute(TRUE)
  \/ \E text \in PresetTexts : EditPresetName(text)
  \/ on_load_preset

SpecFailurePaths == InitFailurePaths /\ [][NextFailurePaths]_vars

\* the last operation ended on one of its failure paths
FailedOperation ==
  \/ /\ lastOp = "load_workspaces"
     /\ p4WorkspaceList \in {<<"(Error loading workspaces)">>, <<"(P4 command not found)">>,
                              <<"(Connection timeout)">>}
     /\ st_status \in {"Error", "P4 CLI not installed", "Connection timeout"}
  \/ /\ lastOp = "on_load_preset"
     /\ mp_msg.title \in {"Error", "Preset Not Found"}

\* C20: every operation that ended on a failure path showed a modal
\* message and wrote a logger entry
C20_FailureShownAndLogged ==
  FailedOperation =>
    /\ logged # <<>>
    /\ IF lastOp = "load_workspaces" THEN st_msg # NoMsg ELSE mp_msg # NoMsg

\* ===================================================== get_all_models (C21)
InitModels == \E comps \in Scenes : StartInit(comps)

NextModels ==
  \/ \E include_children \in BOOLEAN : GetAllModelsCall(include_children)
  \/ \E o \in Objects : HostAddObject(o, "Destroy")
  \/ \E o \in Objects : HostRemoveObject(o, "Destroy")

SpecModels == InitModels /\ [][NextModels]_vars

\* C21: get_all_models(True) returned every model of the scene and
\* get_all_models(False) only the models without a parent, both in scene
\* component order
C21_TopLevelOnly ==
  lastOp = "get_all_models" =>
    gm_call.result = IF gm_call.include_children
                     THEN SelectSeq(Components, IsModel)
                     ELSE TopLevel(Components)

\* ======================================================= SceneMonitor (C22)
InitMonitor == StartInit(SceneOf({1, 3}))

NextMonitor ==
  \/ get_scene_monitor
  \/ register_callbacks
  \/ unregister_callbacks
  \/ \E callback \in Listeners, fails \in BOOLEAN : add_listener(callback, fails)
  \/ \E callback \in Listeners : remove_listener(callback)
  \/ sm_scan_scene
  \/ \E kind \in {"new", "open", "merge", "save"}, comps \in FileScenes :
       HostFileEvent(kind, comps)

SpecMonitor == InitMonitor /\ [][NextMonitor]_vars

\* a scan ran: a manual one, or one a file new / open / merge event started
\* while the monitor's callbacks were attached
ScanStep ==
  \/ sm_scan_scene
  \/ /\ callbacks_registered
     /\ \E kind \in {"new", "open", "merge"}, comps \in FileScenes :
          HostFileEvent(kind, comps)

\* texts a caller may ask has_namespace about
NamespaceTexts == {<<"n">>, <<"m">>, <<>>}

\* C22: a scan calls every registered listener exactly once, each with the
\* scene_info get_scene_info() returns after the scan, which describes the
\* scanned scene; has_namespace holds for every entry of get_namespaces
C22_ScanNotifies ==
  [][ScanStep =>
       /\ \A l \in Range(listeners) :
            Cardinality({i \in 1..Len(sm_notified') : sm_notified'[i].listener = l}) = 1
       /\ \A i \in 1..Len(sm_notified') :
            /\ sm_notified'[i].listener \in Range(listeners)
            /\ sm_notified'[i].info =
                 get_scene_info(scene_objects', sm_namespaces', has_objects')
       /\ Len(scene_objects') = Len(Components')
       /\ has_objects' = (Components' # <<>>)
       /\ \A nss \in (SUBSET NamespaceTexts) \cup {sm_namespaces'} :
            \A i \in 1..Len(get_namespaces(nss)) :
              has_namespace(nss, get_namespaces(nss)[i])]_vars

\* C22 witness: a file event made the monitor scan a scene with objects and
\* call two listeners, the first of which raises
C22_Witness ==
  /\ lastOp = "HostFileEvent" /\ callbacks_registered
  /\ Len(sm_notified) = 2 /\ Len(listeners) = 2 /\ listeners[1] \in failing
  /\ sm_notified[2].info.object_count = Len(Components) /\ has_objects

\* =============================================== constraint creation (C23)
InitConstraint == StartInit(SceneOf({1, 2}))

NextConstraint ==
  \/ cm_execute(TRUE)
  \/ on_list_item_clicked(1, FALSE)
  \/ on_list_item_clicked(2, TRUE)
  \/ on_set_parent
  \/ on_set_child
  \/ \E errs \in ErrSeqs : on_active_changed(errs)

SpecConstraint == InitConstraint /\ [][NextConstraint]_vars

\* the setup on_active_changed validates
ValidSetup ==
  validate_constraint_setup(constraint_parents,
    ConstraintTargets(constraint_children, cm_selected_objects)) = ""

\* C23: un-checking the Active checkbox creates no constraint; when the
\* first creation of a change to checked fails, the handler's reset of the
\* checkbox creates none either; and a change to checked with a valid setup
\* and no host failure does create one
C23_OnlyWhenChecked ==
  [][\A errs \in ErrSeqs :
       on_active_changed(errs) =>
         /\ activeCheckbox => constraints' = constraints
         /\ (~activeCheckbox /\ errs # <<>>) => constraints' = constraints
         /\ (~activeCheckbox /\ ValidSetup /\ errs = <<>>) =>
              Len(constraints') > Len(constraints)]_vars

\* ================================================ validated creation (C24)
NextCreation ==
  \/ cm_execute(TRUE)
  \/ on_list_item_clicked(1, FALSE)
  \/ on_list_item_clicked(2, TRUE)
  \/ on_set_parent
  \/ on_set_child
  \/ on_active_changed(<<>>)
  \/ \E type \in {"Position", "Relation"} : SetConstraintType(type)

SpecCreation == InitConstraint /\ [][NextCreation]_vars

CellFrameTexts == {<<"7">>, <<"0", "7">>, <<"x">>}

NextNote ==
  \/ on_add_animation(0, 10)
  \/ EditAnimationField("name", <<" ", "A", " ">>)
  \/ on_accept
  \/ \E row \in 1..MaxRows :
       \/ on_table_data_changed(row, "name", <<"B">>)
       \/ \E text \in CellFrameTexts : on_table_data_changed(row, "start", text)
  \/ \E rows \in SUBSET (1..MaxRows), reply \in {"Yes", "No"} : on_delete_selected(rows, reply)
  \/ \E reply \in {"Yes", "No"} : on_delete_all(reply)

SpecNote == InitAnim /\ [][NextNote]_vars

\* C25: the properties anim00..anim(n-1) hold the data of the n rows of the
\* table in order, every further anim property is empty, and
\* load_data_from_note gives back the rows of the table
C25_NoteMirrorsTable ==
  /\ \A r \in 1..Len(animation_table) :
       /\ r - 1 \in DOMAIN note_props
       /\ RowParses(animation_table[r])
       /\ note_props[r - 1] = RowData(animation_table[r])
  /\ \A i \in DOMAIN note_props : i >= Len(animation_table) => note_props[i] = EmptyProp
  /\ load_data_from_note(note_props) = animation_table

\* ====================================================== set and get (C26)
\* the values a caller stores
CfgSetValues == {[t |-> "str", v |-> "y"], CfgDict([j \in {} |-> CfgNone])}

NextSetGet ==
  \/ \E key \in CfgKeyTexts, value \in CfgSetValues : ConfigSet(key, value)
  \/ \E key \in CfgKeyTexts : ConfigGet(key, CfgNone)

SpecSetGet == InitConfig /\ [][NextSetGet]_vars

\* a is the beginning of b
IsPrefix(a, b) == Len(a) <= Len(b) /\ SubSeq(b, 1, Len(a)) = a

\* the written key lies on the path of key, or key on the path of written
OnPath(written, key) ==
  \E w \in SegmentsOf(written), s \in SegmentsOf(key) : IsPrefix(w, s) \/ IsPrefix(s, w)

\* C26: set(key, value) does not raise, get(key) returns value afterwards,
\* and get of every key off the path of the written key returns what it
\* returned before
C26_SetThenGet ==
  [][lastOp' = "set" =>
       /\ ~raised'
       /\ get(config', cfg_call'.key, CfgNone) = cfg_call'.value
       /\ \A key \in CfgKeyTexts, default \in CfgDefaults :
            ~OnPath(cfg_call'.key, key) =>
              get(config', key, default) = get(config, key, default)]_vars

\* ================================================ listener registry (C27)
\* C27: add_listener of a registered callback leaves the list as it is and
\* otherwise appends it once; remove_listener of an unregistered callback
\* leaves the list as it is; a scan calls every listener registered after
\* one that raises, and nothing is raised to the caller of the scan
C27_ListenersIsolated ==
  [][/\ \A callback \in Listeners, fails \in BOOLEAN :
          add_listener(callback, fails) =>
            /\ InList(callback, listeners) => listeners' = listeners
            /\ ~InList(callback, listeners) => listeners' = Append(listeners, callback)
            /\ Cardinality({i \in 1..Len(listeners') : listeners'[i] = callback}) = 1
     /\ \A callback \in Listeners :
          (remove_listener(callback) /\ ~InList(callback, listeners)) =>
            listeners' = listeners /\ sm_notified' = sm_notified
     /\ ScanStep =>
          /\ ~raised'
          /\ \A i \in 1..Len(listeners) :
               listeners[i] \in failing =>
                 \A j \in (i + 1)..Len(listeners) :
                   \E n \in 1..Len(sm_notified') : sm_notified'[n].listener = listeners[j]]_vars

\* C27 witness: a scan called a listener that is registered after one that
\* raises
C27_Witness ==
  /\ lastOp = "scan_scene"
  /\ Len(listeners) = 2 /\ listeners[1] \in failing /\ listeners[2] \notin failing
  /\ Len(sm_notified) = 2 /\ sm_notified[2].listener = listeners[2]

\* ================================================ monitor summary (C29)
NextSummary ==
  \/ get_scene_monitor
  \/ \E callback \in Listeners : add_listener(callback, FALSE)
  \/ sm_scan_scene
  \/ \E k \in 1..NumObjects : sm_scan_scene_raises(k)
  \/ \E kind \in {"new", "open", "merge", "save"}, comps \in FileScenes :
       HostFileEvent(kind, comps)

SpecSummary == InitMonitor /\ [][NextSummary]_vars

\* C29: has_objects tells whether the snapshot holds an object, and
\* namespaces is the set of the prefixes of the snapshot's names
C29_SummaryConsistent ==
  sm_monitor = "made" =>
    /\ has_objects = (Len(scene_objects) > 0)
    /\ sm_namespaces = ScannedNamespaces(scene_objects)
    /\ ~(get_scene_info(scene_objects, sm_namespaces, has_objects).has_objects
         /\ get_scene_info(scene_objects, sm_namespaces, has_objects).object_count = 0)

\* ================================================ list and filter (C28)
NextShown ==
  \/ mp_execute(TRUE)
  \/ \E text \in {<<>>, <<"a", "B">>} : on_search_changed(text)
  \/ on_refresh_clicked
  \/ on_object_list_item_clicked(1, FALSE)
  \/ on_list_children_clicked
  \/ \E o \in {1, 3} : HostAddObject(o, "AddChild")
  \/ \E o \in {1, 3} : HostRemoveObject(o, "Destroy")
  \/ \E kind \in {"open"}, comps \in {SceneOf({1, 2})} : HostFileEvent(kind, comps)

SpecShown == InitFileEvent /\ [][NextShown]_vars

\* C28: the objects list of the open Character Mapper holds the names of
\* the all_models entries that match the search text, in all_models order
C28_ListShowsFiltered ==
  MpUsable => objectsList = apply_filter(searchEdit, all_models)

\* ================================================== settings save (C30)
\* the texts of the form
ServerTexts == {<<"s">>, <<"t">>}
UserTexts == {<<"u">>}
WorkspaceItems == {NoItem, Item(<<"w">>), Item(<<"(", "n", ")">>)}
FbxPaths == {<<>>, <<"d">>}

InitSettings ==
  /\ HostInit(<<>>) /\ EmInit /\ MpInit /\ CmInit /\ AnimInit /\ ToolInit
  /\ CfgInit(SettingsConfig(<<>>, <<>>, <<>>, <<>>))

NextSettings ==
  \/ st_execute(TRUE)
  \/ st_closeEvent
  \/ \E server \in ServerTexts, user \in UserTexts, current_item \in WorkspaceItems,
        fbx_path \in FbxPaths, exists \in BOOLEAN, reply \in {"Yes", "No"},
        mkdir_ok \in BOOLEAN :
       on_save_settings(server, user, current_item, fbx_path, exists, reply, mkdir_ok)

SpecSettings == InitSettings /\ [][NextSettings]_vars

\* C30: an aborted on_save_settings leaves the configuration in memory and
\* in the file as they were; a completed one sets the four values from the
\* form, a placeholder workspace as "", in memory and in the file
C30_AbortedSaveChangesNothing ==
  [][\A server \in ServerTexts, user \in UserTexts, current_item \in WorkspaceItems,
        fbx_path \in FbxPaths, exists \in BOOLEAN, reply \in {"Yes", "No"},
        mkdir_ok \in BOOLEAN :
       on_save_settings(server, user, current_item, fbx_path, exists, reply, mkdir_ok) =>
         IF SaveAborted(fbx_path, exists, reply, mkdir_ok)
         THEN config' = config /\ config_file' = config_file
         ELSE /\ config' = SettingsConfig(server, user,
                             IF current_item.has /\ ~StartsWithParen(current_item.text)
                             THEN current_item.text ELSE <<>>, fbx_path)
              /\ config_file' = config']_vars

====
